---- MODULE Spec2Model ----
(***************************************************************************)
(* Session / anomaly derivation engine of the construction-site view:      *)
(* ConstructionSiteService (construction-site.service.ts).                 *)
(*                                                                         *)
(* One run of the pipeline over one snapshot of the event log:             *)
(*   transformToConstructionSiteEvents  (sort, forEach scan, sort)         *)
(*   identifyTheftAlerts, calculateVendorAnalytics                         *)
(*                                                                         *)
(* Strings are TLA+ strings; an optional string field that is absent is    *)
(* the empty string (every use in the code is `x || ''`, `if (x)` or a     *)
(* comparison with a non-empty literal, which treat both alike).           *)
(* A timestamp is the number of minutes after local midnight of the        *)
(* reference day; new Date(ts).getTime() is its value in milliseconds.     *)
(***************************************************************************)
EXTENDS Integers, Sequences, FiniteSets, TLC

VARIABLES
    events,          \* the Event[] handed to transformToConstructionSiteEvents
    sortedEvents,    \* the sorted copy the scan walks
    idx,             \* position of the forEach in sortedEvents
    vehicleEntries,  \* Map<plate, {firstSeen, lastSeen, entryCount, exitCount}>
    result,          \* ConstructionSiteEvent[] built by the scan
    alerts,          \* MaterialTheftAlert[] returned by identifyTheftAlerts
    analytics,       \* VendorAnalytics[] returned by calculateVendorAnalytics
    today,           \* local midnight of the day calculateVendorAnalytics ran on
    previous,        \* the collections the subscriber holds from the tick before
    pc,              \* where the run is
    \* ConstructionSiteComponent and the requests it has issued
    log,                        \* the rows of the events table, oldest first
    inflight,                   \* the HTTP requests that have no response yet
    issued,                     \* how many requests were issued so far
    cancelled,                  \* seq of the requests unsubscribed before their response
    ticks,                      \* how many 5000 ms periods have elapsed
    lifecycle,                  \* "constructed", "alive" or "destroyed"
    liveEvents,
    liveEventsLoading,
    liveEventsError,            \* null is <<>>
    theftAlerts,
    alertsFrom,                 \* seq of the request whose response theftAlerts holds, 0 for none
    alertsLoading,
    alertsError,                \* null is <<>>
    alertsRefreshSubscription,  \* "undefined", "open" or "closed"
    vendorAnalytics,
    analyticsLoading,
    analyticsError              \* null is <<>>

runVars == <<events, sortedEvents, idx, vehicleEntries, result, alerts, analytics, today,
             previous, pc>>

componentVars == <<log, inflight, issued, cancelled, ticks, lifecycle, liveEvents, liveEventsLoading,
                   liveEventsError, theftAlerts, alertsFrom, alertsLoading, alertsError,
                   alertsRefreshSubscription, vendorAnalytics, analyticsLoading,
                   analyticsError>>

vars == <<runVars, componentVars>>

----------------------------------------------------------------------------
(* Bounds of the model                                                     *)

MaxEvents == 4     \* longest event list of the session runs
MaxShort == 3      \* longest event list of the direction and dropped-record runs
MaxTicks == 2      \* 5000 ms periods the component is followed for

----------------------------------------------------------------------------
(* String helpers: String.prototype.includes / toLowerCase / toUpperCase   *)

UpperLetters ==
    { "A", "B", "C", "D", "E", "F", "G", "H", "I", "J", "K", "L", "M",
      "N", "O", "P", "Q", "R", "S", "T", "U", "V", "W", "X", "Y", "Z" }

LowerLetters ==
    { "a", "b", "c", "d", "e", "f", "g", "h", "i", "j", "k", "l", "m",
      "n", "o", "p", "q", "r", "s", "t", "u", "v", "w", "x", "y", "z" }

Digits ==
    { "0", "1", "2", "3", "4", "5", "6", "7", "8", "9" }

(* the letters that change under toLowerCase / toUpperCase                 *)
LowerOf ==
    ("A" :> "a") @@ ("B" :> "b") @@ ("C" :> "c") @@ ("D" :> "d") @@ ("E" :> "e") @@
    ("F" :> "f") @@ ("G" :> "g") @@ ("H" :> "h") @@ ("I" :> "i") @@ ("J" :> "j") @@
    ("K" :> "k") @@ ("L" :> "l") @@ ("M" :> "m") @@ ("N" :> "n") @@ ("O" :> "o") @@
    ("P" :> "p") @@ ("Q" :> "q") @@ ("R" :> "r") @@ ("S" :> "s") @@ ("T" :> "t") @@
    ("U" :> "u") @@ ("V" :> "v") @@ ("W" :> "w") @@ ("X" :> "x") @@ ("Y" :> "y") @@
    ("Z" :> "z")

UpperOf ==
    ("a" :> "A") @@ ("b" :> "B") @@ ("c" :> "C") @@ ("d" :> "D") @@ ("e" :> "E") @@
    ("f" :> "F") @@ ("g" :> "G") @@ ("h" :> "H") @@ ("i" :> "I") @@ ("j" :> "J") @@
    ("k" :> "K") @@ ("l" :> "L") @@ ("m" :> "M") @@ ("n" :> "N") @@ ("o" :> "O") @@
    ("p" :> "P") @@ ("q" :> "Q") @@ ("r" :> "R") @@ ("s" :> "S") @@ ("t" :> "T") @@
    ("u" :> "U") @@ ("v" :> "V") @@ ("w" :> "W") @@ ("x" :> "X") @@ ("y" :> "Y") @@
    ("z" :> "Z")

CharAt(s, i) == SubSeq(s, i, i)

RECURSIVE MapString(_, _)
MapString(s, map) ==
    IF Len(s) = 0 THEN ""
    ELSE LET c == CharAt(s, 1) IN
         (IF c \in DOMAIN map THEN map[c] ELSE c) \o MapString(SubSeq(s, 2, Len(s)), map)

toLowerCase(s) == MapString(s, LowerOf)
toUpperCase(s) == MapString(s, UpperOf)

Includes(s, kw) ==
    \E i \in 1..(Len(s) - Len(kw) + 1) : SubSeq(s, i, i + Len(kw) - 1) = kw

----------------------------------------------------------------------------
(* Time                                                                    *)

MsPerMinute == 60 * 1000

getTime(timestamp) == timestamp * MsPerMinute

TwoHoursMs == 2 * 60 * 60 * 1000
ThirtyMinutesMs == 30 * 60 * 1000
OneDayMs == 24 * 60 * 60 * 1000

MinutesPerDay == 24 * 60

(* Date.prototype.getHours: the local hour of day                          *)
getHours(timestamp) == (timestamp \div 60) % 24

(* setHours(0, 0, 0, 0) then getTime(): local midnight of the day          *)
StartOfDay(timestamp) == getTime((timestamp \div MinutesPerDay) * MinutesPerDay)

----------------------------------------------------------------------------
(* Keyword tests on the lower-cased description                            *)

HasExitKeyword(desc) ==
    Includes(desc, "exit") \/ Includes(desc, "departure") \/ Includes(desc, "leaving")

HasEntryKeyword(desc) ==
    Includes(desc, "entry") \/ Includes(desc, "arrival") \/ Includes(desc, "entering")

(* determineVehicleCategory: the plate is upper-cased and then not used.   *)
determineVehicleCategory(plateNumber, description) ==
    LET desc == toLowerCase(description) IN
    IF Includes(desc, "truck") \/ Includes(desc, "material") \/ Includes(desc, "delivery")
    THEN "Material Truck"
    ELSE IF Includes(desc, "machinery") \/ Includes(desc, "excavator") \/ Includes(desc, "crane")
    THEN "Machinery"
    ELSE IF Includes(desc, "staff") \/ Includes(desc, "employee") \/ Includes(desc, "personnel")
    THEN "Staff"
    ELSE "Material Truck"

(* determineDirection: deprecated helper, no caller.                       *)
determineDirection(eventType, description) ==
    LET desc == toLowerCase(description) IN
    IF HasExitKeyword(desc) THEN "Exit"
    ELSE IF HasEntryKeyword(desc) THEN "Entry"
    ELSE IF eventType = "ALERT" THEN "Exit"
    ELSE "Entry"

----------------------------------------------------------------------------
(* determineGateName and its regular expression /gate\s*([a-z0-9]+)/i      *)

IsAlnum(c) == c \in LowerLetters \/ c \in UpperLetters \/ c \in Digits
(* \s, for the white space a description can hold                         *)
IsSpace(c) == c \in {" ", "\t", "\n", "\r", "\f"}

(* first index >= i of s that is not white space (Len(s)+1 if none)        *)
RECURSIVE SkipSpaces(_, _)
SkipSpaces(s, i) ==
    IF i <= Len(s) /\ IsSpace(CharAt(s, i)) THEN SkipSpaces(s, i + 1) ELSE i

(* last index of the run of [a-z0-9] characters that starts at i           *)
RECURSIVE AlnumRunEnd(_, _)
AlnumRunEnd(s, i) ==
    IF i + 1 <= Len(s) /\ IsAlnum(CharAt(s, i + 1)) THEN AlnumRunEnd(s, i + 1) ELSE i

(* "gate" in every letter case (the i flag)                                *)
GateSpellings ==
    { g \o a \o t \o e : g \in {"g", "G"}, a \in {"a", "A"}, t \in {"t", "T"}, e \in {"e", "E"} }

(* the regex matches at p: "gate", any white space, one alphanumeric       *)
GateMatchesAt(s, p) ==
    /\ p + 3 <= Len(s)
    /\ SubSeq(s, p, p + 3) \in GateSpellings
    /\ LET q == SkipSpaces(s, p + 4) IN q <= Len(s) /\ IsAlnum(CharAt(s, q))

(* description.match(...): the capture group of the leftmost match, or ""  *)
(* when there is no match (a match never captures the empty string).       *)
GateMatch(s) ==
    IF \E p \in 1..Len(s) : GateMatchesAt(s, p)
    THEN LET p == CHOOSE p \in 1..Len(s) :
                     GateMatchesAt(s, p) /\ \A r \in 1..(p - 1) : ~GateMatchesAt(s, r)
             q == SkipSpaces(s, p + 4)
         IN SubSeq(s, q, AlnumRunEnd(s, q))
    ELSE ""

(* variant: a gate named in the description wins over the rule name       *)
determineGateName_DescriptionFirst(ruleName, description) ==
    IF description # "" /\ GateMatch(description) # ""
    THEN "Gate " \o GateMatch(description)
    ELSE IF ruleName # ""
    THEN IF Includes(toLowerCase(ruleName), "gate") THEN ruleName
         ELSE "Gate " \o ruleName
    ELSE "Main Gate"

determineGateName(ruleName, description) ==
    IF ruleName # ""
    THEN IF Includes(toLowerCase(ruleName), "gate") THEN ruleName
         ELSE "Gate " \o ruleName
    ELSE IF description # "" /\ GateMatch(description) # ""
    THEN "Gate " \o GateMatch(description)
    ELSE "Main Gate"

----------------------------------------------------------------------------
(* Array.prototype.sort with a timestamp comparator (stable)               *)

(* insert e after every element that does not compare greater than it      *)
RECURSIVE InsertAsc(_, _)
InsertAsc(s, e) ==
    IF s = <<>> THEN <<e>>
    ELSE IF getTime(s[Len(s)].timestamp) - getTime(e.timestamp) > 0
         THEN Append(InsertAsc(SubSeq(s, 1, Len(s) - 1), e), s[Len(s)])
         ELSE Append(s, e)

(* the elements of s inserted into sorted one after the other, first to    *)
(* last; a list of several elements is taken as its two halves in turn,    *)
(* the list after the first half being a value mid before the second half  *)
(* is entered                                                              *)
RECURSIVE InsertAllAsc(_, _)
InsertAllAsc(sorted, s) ==
    IF s = <<>> THEN sorted
    ELSE IF Len(s) = 1 THEN InsertAsc(sorted, s[1])
    ELSE LET half == Len(s) \div 2
         IN CHOOSE all \in { InsertAllAsc(mid, SubSeq(s, half + 1, Len(s))) :
                                 mid \in {InsertAllAsc(sorted, SubSeq(s, 1, half))} } :
                TRUE

SortByTimestampAsc(s) == InsertAllAsc(<<>>, s)

RECURSIVE InsertDesc(_, _)
InsertDesc(s, e) ==
    IF s = <<>> THEN <<e>>
    ELSE IF getTime(e.timestamp) - getTime(s[Len(s)].timestamp) > 0
         THEN Append(InsertDesc(SubSeq(s, 1, Len(s) - 1), e), s[Len(s)])
         ELSE Append(s, e)

RECURSIVE SortByTimestampDesc(_)
SortByTimestampDesc(s) ==
    IF s = <<>> THEN <<>>
    ELSE InsertDesc(SortByTimestampDesc(SubSeq(s, 1, Len(s) - 1)), s[Len(s)])

----------------------------------------------------------------------------
(* transformToConstructionSiteEvents: one iteration of the forEach          *)

(* the plate without the 'UNKNOWN' default for a missing one               *)
PlateNumber_NoDefault(event) == event.plate_text

PlateNumber(event) == IF event.plate_text # "" THEN event.plate_text ELSE "UNKNOWN"

IsUnknownPlate(event) == PlateNumber(event) = "UNKNOWN"

IsInvalidPlateFormat(event) ==
    \/ determineGateName(event.rule_name, event.description) = "Gate invalid_plate_format"
    \/ event.rule_name = "invalid_plate_format"

IsAllowEvent(event) == event.event_type = "ALLOW"

(* vehicleEntries.get(plate) after the has/set of lines 176-183            *)
VehicleState(entries, plateNumber, eventTime) ==
    IF plateNumber \in DOMAIN entries
    THEN entries[plateNumber]
    ELSE [firstSeen |-> eventTime, lastSeen |-> eventTime, entryCount |-> 0, exitCount |-> 0]

CountEntry(vs) == [vs EXCEPT !.entryCount = @ + 1]
CountExit(vs) == [vs EXCEPT !.exitCount = @ + 1]

(* Variants of AllowStrategy with one plausible slip each.                 *)
Entry(vs) == [direction |-> "Entry", state |-> CountEntry(vs)]
Exit(vs) == [direction |-> "Exit", state |-> CountExit(vs)]
NewVisit(vs, eventTime) ==
    [direction |-> "Entry", state |-> [CountEntry(vs) EXCEPT !.firstSeen = eventTime]]

(* the description is consulted before anything else                       *)
AllowStrategy_KeywordsFirst(vs, eventTime, description) ==
    LET desc == toLowerCase(description) IN
    IF HasExitKeyword(desc) THEN Exit(vs)
    ELSE IF HasEntryKeyword(desc) THEN Entry(vs)
    ELSE IF vs.entryCount = 0 /\ vs.exitCount = 0 THEN Entry(vs)
    ELSE IF eventTime - vs.lastSeen > TwoHoursMs THEN NewVisit(vs, eventTime)
    ELSE IF vs.entryCount > vs.exitCount THEN Exit(vs)
    ELSE Entry(vs)

(* the two-hour test is >= instead of >                                    *)
AllowStrategy_GapInclusive(vs, eventTime, description) ==
    LET desc == toLowerCase(description) IN
    IF vs.entryCount = 0 /\ vs.exitCount = 0 THEN Entry(vs)
    ELSE IF eventTime - vs.lastSeen >= TwoHoursMs THEN NewVisit(vs, eventTime)
    ELSE IF vs.entryCount > vs.exitCount THEN Exit(vs)
    ELSE IF HasExitKeyword(desc) THEN Exit(vs)
    ELSE Entry(vs)

(* strategy 4 (keywords) is tried before strategy 3 (counters)             *)
AllowStrategy_KeywordsBeforeCounters(vs, eventTime, description) ==
    LET desc == toLowerCase(description) IN
    IF vs.entryCount = 0 /\ vs.exitCount = 0 THEN Entry(vs)
    ELSE IF eventTime - vs.lastSeen > TwoHoursMs THEN NewVisit(vs, eventTime)
    ELSE IF HasExitKeyword(desc) THEN Exit(vs)
    ELSE IF HasEntryKeyword(desc) THEN Entry(vs)
    ELSE IF vs.entryCount > vs.exitCount THEN Exit(vs)
    ELSE Entry(vs)

(* in strategy 4 the entry keywords are tested before the exit keywords    *)
AllowStrategy_EntryKeywordFirst(vs, eventTime, description) ==
    LET desc == toLowerCase(description) IN
    IF vs.entryCount = 0 /\ vs.exitCount = 0 THEN Entry(vs)
    ELSE IF eventTime - vs.lastSeen > TwoHoursMs THEN NewVisit(vs, eventTime)
    ELSE IF vs.entryCount > vs.exitCount THEN Exit(vs)
    ELSE IF HasEntryKeyword(desc) THEN Entry(vs)
    ELSE IF HasExitKeyword(desc) THEN Exit(vs)
    ELSE Entry(vs)

(* strategy 3 (counters) is missing                                        *)
AllowStrategy_NoCounters(vs, eventTime, description) ==
    LET desc == toLowerCase(description) IN
    IF vs.entryCount = 0 /\ vs.exitCount = 0 THEN Entry(vs)
    ELSE IF eventTime - vs.lastSeen > TwoHoursMs THEN NewVisit(vs, eventTime)
    ELSE IF HasExitKeyword(desc) THEN Exit(vs)
    ELSE Entry(vs)

(* strategy 1 reads the exit keywords of a plate's first record            *)
AllowStrategy_KeywordOnFirstSight(vs, eventTime, description) ==
    LET desc == toLowerCase(description) IN
    IF vs.entryCount = 0 /\ vs.exitCount = 0
    THEN IF HasExitKeyword(desc) THEN Exit(vs) ELSE Entry(vs)
    ELSE IF eventTime - vs.lastSeen > TwoHoursMs THEN NewVisit(vs, eventTime)
    ELSE IF vs.entryCount > vs.exitCount THEN Exit(vs)
    ELSE IF HasExitKeyword(desc) THEN Exit(vs)
    ELSE Entry(vs)

(* strategy 5 (short stay) is tried before strategy 3 (counters)           *)
AllowStrategy_ShortStayBeforeCounters(vs, eventTime, description) ==
    LET desc == toLowerCase(description) IN
    IF vs.entryCount = 0 /\ vs.exitCount = 0 THEN Entry(vs)
    ELSE IF eventTime - vs.lastSeen > TwoHoursMs THEN NewVisit(vs, eventTime)
    ELSE IF eventTime - vs.firstSeen < ThirtyMinutesMs THEN Entry(vs)
    ELSE IF vs.entryCount > vs.exitCount THEN Exit(vs)
    ELSE IF HasExitKeyword(desc) THEN Exit(vs)
    ELSE Entry(vs)

(* strategy 6 defaults to Exit                                             *)
AllowStrategy_DefaultExit(vs, eventTime, description) ==
    LET desc == toLowerCase(description) IN
    IF vs.entryCount = 0 /\ vs.exitCount = 0 THEN Entry(vs)
    ELSE IF eventTime - vs.lastSeen > TwoHoursMs THEN NewVisit(vs, eventTime)
    ELSE IF vs.entryCount > vs.exitCount THEN Exit(vs)
    ELSE IF HasExitKeyword(desc) THEN Exit(vs)
    ELSE IF HasEntryKeyword(desc) THEN Entry(vs)
    ELSE IF eventTime - vs.firstSeen < ThirtyMinutesMs THEN Entry(vs)
    ELSE Exit(vs)

(* Strategies 1-6: the direction and the vehicle state with its counters   *)
(* (and firstSeen) updated, before lastSeen is set.                        *)
AllowStrategy(vs, eventTime, description) ==
    LET timeSinceLastSeen == eventTime - vs.lastSeen
        timeSinceFirstSeen == eventTime - vs.firstSeen
        desc == toLowerCase(description)
    IN
    IF vs.entryCount = 0 /\ vs.exitCount = 0
    THEN [direction |-> "Entry", state |-> CountEntry(vs)]
    ELSE IF timeSinceLastSeen > TwoHoursMs
    THEN [direction |-> "Entry",
          state |-> [CountEntry(vs) EXCEPT !.firstSeen = eventTime]]
    ELSE IF vs.entryCount > vs.exitCount
    THEN [direction |-> "Exit", state |-> CountExit(vs)]
    ELSE IF HasExitKeyword(desc)
    THEN [direction |-> "Exit", state |-> CountExit(vs)]
    ELSE IF HasEntryKeyword(desc)
    THEN [direction |-> "Entry", state |-> CountEntry(vs)]
    ELSE IF timeSinceFirstSeen < ThirtyMinutesMs
    THEN [direction |-> "Entry", state |-> CountEntry(vs)]
    ELSE [direction |-> "Entry", state |-> CountEntry(vs)]

(* variant: lastSeen is set in the Entry branches only                     *)
AllowStep_LastSeenOnEntry(entries, event) ==
    LET plateNumber == PlateNumber(event)
        eventTime == getTime(event.timestamp)
        r == AllowStrategy(VehicleState(entries, plateNumber, eventTime),
                           eventTime, event.description)
    IN [direction |-> r.direction,
        state |-> IF r.direction = "Entry"
                  THEN [r.state EXCEPT !.lastSeen = eventTime]
                  ELSE r.state]

(* lines 185-231: the direction of one ALLOW event and the plate's state   *)
(* after it (counters, firstSeen, then lastSeen)                           *)
AllowStep(entries, event) ==
    LET plateNumber == PlateNumber(event)
        eventTime == getTime(event.timestamp)
        r == AllowStrategy(VehicleState(entries, plateNumber, eventTime),
                           eventTime, event.description)
    IN [direction |-> r.direction,
        state |-> [r.state EXCEPT !.lastSeen = eventTime]]

(* an alert without a keyword is left at the default                       *)
NonAllowDirection_DefaultEntry(event) ==
    IF event.event_type = "ALERT" /\ HasExitKeyword(toLowerCase(event.description))
    THEN "Exit"
    ELSE "Entry"

(* variant: the entry keywords are tested before the exit keywords         *)
NonAllowDirection_EntryKeywordFirst(event) ==
    IF event.event_type = "ALERT"
    THEN LET desc == toLowerCase(event.description) IN
         IF HasEntryKeyword(desc) THEN "Entry" ELSE "Exit"
    ELSE "Entry"

(* lines 260-272: the direction of one non-ALLOW event                     *)
NonAllowDirection(event) ==
    IF event.event_type = "ALERT"
    THEN LET desc == toLowerCase(event.description) IN
         IF HasExitKeyword(desc) THEN "Exit"
         ELSE IF HasEntryKeyword(desc) THEN "Entry"
         ELSE "Exit"
    ELSE "Entry"

ConstructionSiteEvent(event, direction) ==
    [id |-> event.id,
     plateNumber |-> PlateNumber(event),
     vehicleCategory |-> determineVehicleCategory(PlateNumber(event), event.description),
     direction |-> direction,
     gateName |-> determineGateName(event.rule_name, event.description),
     timestamp |-> event.timestamp,
     decision |-> event.event_type,
     eventType |-> event.event_type,
     description |-> event.description,
     ruleName |-> event.rule_name]

(* Map.set                                                                 *)
PutEntry(entries, plateNumber, vs) ==
    [p \in DOMAIN entries \cup {plateNumber} |->
        IF p = plateNumber THEN vs ELSE entries[p]]

EmptyMap == [p \in {} |-> 0]

(* The scan state is st = [vehicleEntries, result].                        *)
EmptyScan == [vehicleEntries |-> EmptyMap, result |-> <<>>]

(* lines 174-249: the ALLOW branch of the forEach body                     *)
AllowBranch(st, event) ==
    LET r == AllowStep(st.vehicleEntries, event) IN
    [vehicleEntries |-> PutEntry(st.vehicleEntries, PlateNumber(event), r.state),
     result |-> Append(st.result, ConstructionSiteEvent(event, r.direction))]

(* the non-ALLOW branch refreshes lastSeen of a plate it knows             *)
NonAllowBranch_UpdatesLastSeen(st, event) ==
    LET p == PlateNumber(event) IN
    [vehicleEntries |->
        IF p \in DOMAIN st.vehicleEntries
        THEN [st.vehicleEntries EXCEPT ![p].lastSeen = getTime(event.timestamp)]
        ELSE st.vehicleEntries,
     result |-> Append(st.result, ConstructionSiteEvent(event, NonAllowDirection(event)))]

(* the non-ALLOW branch shows nothing                                      *)
NonAllowBranch_NotDisplayed(st, event) == st

(* lines 250-286: the non-ALLOW branch of the forEach body                 *)
NonAllowBranch(st, event) ==
    IF IsInvalidPlateFormat(event)
    THEN st
    ELSE [vehicleEntries |-> st.vehicleEntries,
          result |-> Append(st.result,
                            ConstructionSiteEvent(event, NonAllowDirection(event)))]

(* lines 158-287: the forEach body with its early returns                  *)
ForEachBody(st, event) ==
    IF IsUnknownPlate(event) THEN st
    ELSE IF IsInvalidPlateFormat(event) THEN st
    ELSE IF IsAllowEvent(event) THEN AllowBranch(st, event)
    ELSE NonAllowBranch(st, event)

(* the forEach over a whole sorted list                                    *)
(* the iterations for the events of list, first to last, from the scan    *)
(* state st; a list of several events is taken as its two halves in turn,  *)
(* the state after the first half being a value mid before the second half *)
(* is entered                                                              *)
RECURSIVE ScanFrom(_, _)
ScanFrom(st, list) ==
    IF list = <<>> THEN st
    ELSE IF Len(list) = 1 THEN ForEachBody(st, list[1])
    ELSE LET half == Len(list) \div 2
         IN CHOOSE after \in { ScanFrom(mid, SubSeq(list, half + 1, Len(list))) :
                                   mid \in {ScanFrom(st, SubSeq(list, 1, half))} } :
                TRUE

ScanAll(sorted) == ScanFrom(EmptyScan, sorted)

(* lines 142-293 as a function of the event list                           *)
transformToConstructionSiteEvents(list) ==
    SortByTimestampDesc(ScanAll(SortByTimestampAsc(list)).result)

----------------------------------------------------------------------------
(* identifyTheftAlerts                                                     *)

(* the distinct elements of a list, in order of first appearance           *)
RECURSIVE Distinct(_)
Distinct(keys) ==
    IF keys = <<>> THEN <<>>
    ELSE LET front == Distinct(SubSeq(keys, 1, Len(keys) - 1))
             k == keys[Len(keys)]
         IN IF \E i \in 1..Len(front) : front[i] = k THEN front ELSE Append(front, k)

(* lines 377-382: the keys of plateEntries, in insertion order            *)
PlateKeys(list) == Distinct([i \in 1..Len(list) |-> list[i].plateNumber])

MaterialTheftAlert(exitEvent, plateNumber, alertType, message) ==
    [id |-> exitEvent.id,
     plateNumber |-> plateNumber,
     alertType |-> alertType,
     message |-> message,
     timestamp |-> exitEvent.timestamp,
     description |-> exitEvent.description]

(* variant: an entry of the same instant counts as a match                  *)
HasMatchingEntry_Inclusive(entries, exitEvent) ==
    \E i \in 1..Len(entries) :
        LET exitTime == getTime(exitEvent.timestamp)
            entryTime == getTime(entries[i].timestamp)
        IN entryTime <= exitTime /\ (exitTime - entryTime) < OneDayMs

(* lines 403-408: entries.some(...)                                        *)
HasMatchingEntry(entries, exitEvent) ==
    \E i \in 1..Len(entries) :
        LET exitTime == getTime(exitEvent.timestamp)
            entryTime == getTime(entries[i].timestamp)
        IN entryTime < exitTime /\ (exitTime - entryTime) < OneDayMs

(* variant: working hours run to 20:59                                     *)
IsAfterHours_Past20(exitEvent) ==
    LET hour == getHours(exitEvent.timestamp) IN hour < 6 \/ hour > 20

IsAfterHours(exitEvent) ==
    LET hour == getHours(exitEvent.timestamp) IN hour < 6 \/ hour >= 20

(* variant: every alerted record is taken for an exit                      *)
PlateAlerts_AnyAlert(list, plateNumber) ==
    LET OfPlate(e) == e.plateNumber = plateNumber
        IsAlertExit(e) == e.decision = "ALERT"
        IsEntry(e) == e.direction = "Entry"
        plateEvents == SelectSeq(list, OfPlate)
        exits == SelectSeq(plateEvents, IsAlertExit)
        entries == SelectSeq(plateEvents, IsEntry)
        Unmatched(e) == ~HasMatchingEntry(entries, e)
        unmatched == SelectSeq(exits, Unmatched)
        afterHours == SelectSeq(exits, IsAfterHours)
    IN [i \in 1..Len(exits) |->
            MaterialTheftAlert(exits[i], plateNumber, "Unauthorized Exit",
                               "Unauthorized material movement detected")]
       \o
       [i \in 1..Len(unmatched) |->
            MaterialTheftAlert(unmatched[i], plateNumber, "No Matching Entry",
                               "Vehicle exited without recorded entry")]
       \o
       [i \in 1..Len(afterHours) |->
            MaterialTheftAlert(afterHours[i], plateNumber, "After Hours Exit",
                               "Material movement detected outside working hours")]

(* variant: every exit is checked, whatever its decision                   *)
PlateAlerts_AnyExit(list, plateNumber) ==
    LET OfPlate(e) == e.plateNumber = plateNumber
        IsAlertExit(e) == e.direction = "Exit"
        IsEntry(e) == e.direction = "Entry"
        plateEvents == SelectSeq(list, OfPlate)
        exits == SelectSeq(plateEvents, IsAlertExit)
        entries == SelectSeq(plateEvents, IsEntry)
        Unmatched(e) == ~HasMatchingEntry(entries, e)
        unmatched == SelectSeq(exits, Unmatched)
        afterHours == SelectSeq(exits, IsAfterHours)
    IN [i \in 1..Len(exits) |->
            MaterialTheftAlert(exits[i], plateNumber, "Unauthorized Exit",
                               "Unauthorized material movement detected")]
       \o
       [i \in 1..Len(unmatched) |->
            MaterialTheftAlert(unmatched[i], plateNumber, "No Matching Entry",
                               "Vehicle exited without recorded entry")]
       \o
       [i \in 1..Len(afterHours) |->
            MaterialTheftAlert(afterHours[i], plateNumber, "After Hours Exit",
                               "Material movement detected outside working hours")]

(* variant: the after-hours pass walks every exit, whatever its decision   *)
PlateAlerts_AfterHoursAnyExit(list, plateNumber) ==
    LET OfPlate(e) == e.plateNumber = plateNumber
        IsAlertExit(e) == e.direction = "Exit" /\ e.decision = "ALERT"
        IsExit(e) == e.direction = "Exit"
        IsEntry(e) == e.direction = "Entry"
        plateEvents == SelectSeq(list, OfPlate)
        exits == SelectSeq(plateEvents, IsAlertExit)
        entries == SelectSeq(plateEvents, IsEntry)
        Unmatched(e) == ~HasMatchingEntry(entries, e)
        unmatched == SelectSeq(exits, Unmatched)
        afterHours == SelectSeq(SelectSeq(plateEvents, IsExit), IsAfterHours)
    IN [i \in 1..Len(exits) |->
            MaterialTheftAlert(exits[i], plateNumber, "Unauthorized Exit",
                               "Unauthorized material movement detected")]
       \o
       [i \in 1..Len(unmatched) |->
            MaterialTheftAlert(unmatched[i], plateNumber, "No Matching Entry",
                               "Vehicle exited without recorded entry")]
       \o
       [i \in 1..Len(afterHours) |->
            MaterialTheftAlert(afterHours[i], plateNumber, "After Hours Exit",
                               "Material movement detected outside working hours")]

(* lines 385-437: the alerts pushed for one plate                          *)
PlateAlerts(list, plateNumber) ==
    LET OfPlate(e) == e.plateNumber = plateNumber
        IsAlertExit(e) == e.direction = "Exit" /\ e.decision = "ALERT"
        IsEntry(e) == e.direction = "Entry"
        plateEvents == SelectSeq(list, OfPlate)
        exits == SelectSeq(plateEvents, IsAlertExit)
        entries == SelectSeq(plateEvents, IsEntry)
        Unmatched(e) == ~HasMatchingEntry(entries, e)
        unmatched == SelectSeq(exits, Unmatched)
        afterHours == SelectSeq(exits, IsAfterHours)
    IN [i \in 1..Len(exits) |->
            MaterialTheftAlert(exits[i], plateNumber, "Unauthorized Exit",
                               "Unauthorized material movement detected")]
       \o
       [i \in 1..Len(unmatched) |->
            MaterialTheftAlert(unmatched[i], plateNumber, "No Matching Entry",
                               "Vehicle exited without recorded entry")]
       \o
       [i \in 1..Len(afterHours) |->
            MaterialTheftAlert(afterHours[i], plateNumber, "After Hours Exit",
                               "Material movement detected outside working hours")]

RECURSIVE AlertsOfPlates(_, _)
AlertsOfPlates(list, plates) ==
    IF plates = <<>> THEN <<>>
    ELSE AlertsOfPlates(list, SubSeq(plates, 1, Len(plates) - 1))
         \o PlateAlerts(list, plates[Len(plates)])

(* variant: the alerts are returned in the order they were pushed          *)
identifyTheftAlerts_Unsorted(list) ==
    AlertsOfPlates(list, PlateKeys(list))

identifyTheftAlerts(list) ==
    SortByTimestampDesc(AlertsOfPlates(list, PlateKeys(list)))

----------------------------------------------------------------------------
(* calculateVendorAnalytics                                                *)

stateCodes ==
    ("MH" :> "Maharashtra") @@ ("DL" :> "Delhi") @@ ("KA" :> "Karnataka") @@
    ("TN" :> "Tamil Nadu") @@ ("GJ" :> "Gujarat") @@ ("RJ" :> "Rajasthan") @@
    ("UP" :> "Uttar Pradesh") @@ ("WB" :> "West Bengal") @@ ("MP" :> "Madhya Pradesh") @@
    ("AP" :> "Andhra Pradesh") @@ ("TS" :> "Telangana") @@ ("KL" :> "Kerala") @@
    ("HR" :> "Haryana") @@ ("PB" :> "Punjab") @@ ("OR" :> "Odisha") @@
    ("BR" :> "Bihar") @@ ("AS" :> "Assam") @@ ("JH" :> "Jharkhand") @@
    ("UT" :> "Uttarakhand") @@ ("HP" :> "Himachal Pradesh")

(* variant: the state code is looked up as it is written                   *)
getVendorName_CaseSensitive(plateNumber) ==
    IF Len(plateNumber) >= 2
    THEN LET stateCode == SubSeq(plateNumber, 1, 2) IN
         IF stateCode \in DOMAIN stateCodes THEN stateCodes[stateCode]
         ELSE "Vendor " \o stateCode
    ELSE "Unknown Vendor"

getVendorName(plateNumber) ==
    IF Len(plateNumber) >= 2
    THEN LET stateCode == toUpperCase(SubSeq(plateNumber, 1, 2)) IN
         IF stateCode \in DOMAIN stateCodes THEN stateCodes[stateCode]
         ELSE "Vendor " \o stateCode
    ELSE "Unknown Vendor"

VendorOf(e) == getVendorName(e.plateNumber)

(* lines 458-468: the keys of vendorMap, in insertion order                *)
VendorKeys(list) == Distinct([i \in 1..Len(list) |-> VendorOf(list[i])])

RECURSIVE Sum(_)
Sum(s) == IF s = <<>> THEN 0 ELSE Sum(SubSeq(s, 1, Len(s) - 1)) + s[Len(s)]

(* variant: only an exit of the entry's own plate is matched                *)
MatchingExit_SamePlate(exits, entry) ==
    LET Qualifies(exit) ==
            LET exitTime == getTime(exit.timestamp)
                entryTime == getTime(entry.timestamp)
            IN /\ exit.plateNumber = entry.plateNumber
               /\ exitTime > entryTime /\ (exitTime - entryTime) < OneDayMs
        found == SelectSeq(exits, Qualifies)
    IN IF found = <<>> THEN <<>> ELSE <<found[1]>>

(* lines 494-498: exits.find(...), the first qualifying exit in list order, *)
(* as a list of at most one element                                        *)
MatchingExit(exits, entry) ==
    LET Qualifies(exit) ==
            LET exitTime == getTime(exit.timestamp)
                entryTime == getTime(entry.timestamp)
            IN exitTime > entryTime /\ (exitTime - entryTime) < OneDayMs
        found == SelectSeq(exits, Qualifies)
    IN IF found = <<>> THEN <<>> ELSE <<found[1]>>

(* lines 492-505: the durations, in minutes, of the matched entries        *)
RECURSIVE Durations(_, _)
Durations(entries, exits) ==
    IF entries = <<>> THEN <<>>
    ELSE LET entry == entries[Len(entries)]
             front == Durations(SubSeq(entries, 1, Len(entries) - 1), exits)
             match == MatchingExit(exits, entry)
         IN IF match = <<>> THEN front
            ELSE Append(front, (getTime(match[1].timestamp) - getTime(entry.timestamp))
                                   \div MsPerMinute)

(* variant: every entry counts as a delivery of today                      *)
VendorRow_EveryEntry(allowed, vendorName, now) ==
    LET OfVendor(e) == VendorOf(e) = vendorName
        IsEntry(e) == e.direction = "Entry"
        IsExit(e) == e.direction # "Entry"
        IsToday(e) == StartOfDay(e.timestamp) = StartOfDay(now)
        IsAlert(e) == e.decision = "ALERT"
        vendorEvents == SelectSeq(allowed, OfVendor)
        entries == SelectSeq(vendorEvents, IsEntry)
        exits == SelectSeq(vendorEvents, IsExit)
        durations == Durations(entries, exits)
        sortedEntries == SortByTimestampDesc(entries)
    IN [vendorName |-> vendorName,
        deliveriesToday |-> Len(entries),
        averageDuration |-> IF Len(durations) > 0
                            THEN <<[sum |-> Sum(durations), count |-> Len(durations)]>>
                            ELSE <<>>,
        suspiciousExits |-> Len(SelectSeq(exits, IsAlert)),
        lastDeliveryTime |-> IF sortedEntries = <<>> THEN <<>>
                             ELSE <<sortedEntries[1].timestamp>>]

(* variant: the last delivery is the first entry of the list               *)
VendorRow_FirstEntry(allowed, vendorName, now) ==
    LET OfVendor(e) == VendorOf(e) = vendorName
        IsEntry(e) == e.direction = "Entry"
        IsExit(e) == e.direction # "Entry"
        IsToday(e) == StartOfDay(e.timestamp) = StartOfDay(now)
        IsAlert(e) == e.decision = "ALERT"
        vendorEvents == SelectSeq(allowed, OfVendor)
        entries == SelectSeq(vendorEvents, IsEntry)
        exits == SelectSeq(vendorEvents, IsExit)
        durations == Durations(entries, exits)
        sortedEntries == entries
    IN [vendorName |-> vendorName,
        deliveriesToday |-> Len(SelectSeq(entries, IsToday)),
        averageDuration |-> IF Len(durations) > 0
                            THEN <<[sum |-> Sum(durations), count |-> Len(durations)]>>
                            ELSE <<>>,
        suspiciousExits |-> Len(SelectSeq(exits, IsAlert)),
        lastDeliveryTime |-> IF sortedEntries = <<>> THEN <<>>
                             ELSE <<sortedEntries[1].timestamp>>]

(* lines 483-526: the row of one vendor. An optional field is a list of at *)
(* most one element; the average is kept as the sum and the count of the   *)
(* durations it divides.                                                   *)
VendorRow(allowed, vendorName, now) ==
    LET OfVendor(e) == VendorOf(e) = vendorName
        IsEntry(e) == e.direction = "Entry"
        IsExit(e) == e.direction # "Entry"
        IsToday(e) == StartOfDay(e.timestamp) = StartOfDay(now)
        IsAlert(e) == e.decision = "ALERT"
        vendorEvents == SelectSeq(allowed, OfVendor)
        entries == SelectSeq(vendorEvents, IsEntry)
        exits == SelectSeq(vendorEvents, IsExit)
        durations == Durations(entries, exits)
        sortedEntries == SortByTimestampDesc(entries)
    IN [vendorName |-> vendorName,
        deliveriesToday |-> Len(SelectSeq(entries, IsToday)),
        averageDuration |-> IF Len(durations) > 0
                            THEN <<[sum |-> Sum(durations), count |-> Len(durations)]>>
                            ELSE <<>>,
        suspiciousExits |-> Len(SelectSeq(exits, IsAlert)),
        lastDeliveryTime |-> IF sortedEntries = <<>> THEN <<>>
                             ELSE <<sortedEntries[1].timestamp>>]

(* analytics.sort((a, b) => b.deliveriesToday - a.deliveriesToday)         *)
RECURSIVE InsertByDeliveries(_, _)
InsertByDeliveries(s, row) ==
    IF s = <<>> THEN <<row>>
    ELSE IF row.deliveriesToday - s[Len(s)].deliveriesToday > 0
         THEN Append(InsertByDeliveries(SubSeq(s, 1, Len(s) - 1), row), s[Len(s)])
         ELSE Append(s, row)

RECURSIVE SortByDeliveriesDesc(_)
SortByDeliveriesDesc(s) ==
    IF s = <<>> THEN <<>>
    ELSE InsertByDeliveries(SortByDeliveriesDesc(SubSeq(s, 1, Len(s) - 1)), s[Len(s)])

(* variant: the rows are returned in the order the vendors were met        *)
calculateVendorAnalytics_Unsorted(list, now) ==
    LET IsAllowed(e) == e.decision = "ALLOW"
        allowed == SelectSeq(list, IsAllowed)
        vendors == VendorKeys(allowed)
    IN [i \in 1..Len(vendors) |-> VendorRow(allowed, vendors[i], now)]

(* variant: records of every decision are grouped                          *)
calculateVendorAnalytics_AllDecisions(list, now) ==
    LET vendors == VendorKeys(list)
    IN SortByDeliveriesDesc([i \in 1..Len(vendors) |-> VendorRow(list, vendors[i], now)])

calculateVendorAnalytics(list, now) ==
    LET IsAllowed(e) == e.decision = "ALLOW"
        allowed == SelectSeq(list, IsAllowed)
        vendors == VendorKeys(allowed)
    IN SortByDeliveriesDesc([i \in 1..Len(vendors) |-> VendorRow(allowed, vendors[i], now)])

(* the moments at which `new Date()` of line 480 is taken: the day of the  *)
(* events, after them, and the day after                                   *)
NowTimes == {4 * 60, MinutesPerDay + 9 * 60}

----------------------------------------------------------------------------
(* The event log snapshots the model is run on                             *)

Ev(plate, type, ts, rule, desc) ==
    [plate_text |-> plate, event_type |-> type, timestamp |-> ts,
     rule_name |-> rule, description |-> desc]

(* session runs: one plate seen at 0, 10 min, 2 h and 3 h, with and        *)
(* without directional keywords, an alert of the same plate, another       *)
(* plate, and one record of each dropped kind                              *)
SessionPool ==
    { Ev("MH12AB1234", "ALLOW", 0, "", ""),
      Ev("MH12AB1234", "ALLOW", 10, "", ""),
      Ev("MH12AB1234", "ALLOW", 120, "", ""),
      Ev("MH12AB1234", "ALLOW", 180, "", ""),
      Ev("MH12AB1234", "ALLOW", 10, "", "LEAVING after re-entry"),
      Ev("MH12AB1234", "ALLOW", 10, "", "Arrival of cement"),
      Ev("MH12AB1234", "ALERT", 5, "blacklist", ""),
      Ev("dl01cd5678", "ALLOW", 10, "North Gate", "crane"),
      Ev("", "ALLOW", 0, "", ""),
      Ev("MH12AB1234", "ALLOW", 10, "invalid_plate_format", "") }

(* direction runs: both non-ALLOW decisions with every keyword case        *)
DirectionPool ==
    { Ev("MH12AB1234", type, 10, "", desc) :
          type \in {"ALERT", "LOG_ONLY"},
          desc \in {"", "Vehicle departure", "Entering site", "Exit after re-entry"} }
    \cup
    { Ev("MH12AB1234", "ALLOW", 0, "", ""),
      Ev("UNKNOWN", "ALERT", 10, "", "exit"),
      Ev("MH12AB1234", "LOG_ONLY", 10, "invalid_plate_format", "Invalid plate") }

(* dropped-record runs: every dropped kind under every decision, among     *)
(* records that are kept                                                   *)
DroppedPool ==
    { Ev("UNKNOWN", "ALLOW", 0, "", ""),
      Ev("", "ALERT", 10, "", "Truck leaving"),
      Ev("UNKNOWN", "LOG_ONLY", 10, "blacklist", ""),
      Ev("MH12AB1234", "ALLOW", 10, "invalid_plate_format", ""),
      Ev("MH12AB1234", "ALERT", 10, "invalid_plate_format", "Truck leaving"),
      Ev("KA05XY0001", "LOG_ONLY", 0, "invalid_plate_format", "Invalid plate"),
      Ev("MH12AB1234", "ALLOW", 0, "", ""),
      Ev("MH12AB1234", "ALLOW", 10, "", ""),
      Ev("MH12AB1234", "ALERT", 10, "", "Truck leaving"),
      Ev("unknown", "LOG_ONLY", 10, "", "") }

(* alert runs: alerted exits at 06:00, 14:00, 20:00, 22:00 and at 14:00 of *)
(* the next day, entries of each decision before them, at the same minute, *)
(* exactly 24 hours earlier and on another plate, and alerts that are      *)
(* dropped                                                                 *)
AlertPool ==
    { Ev("MH12AB1234", "ALERT", 14 * 60, "blacklist", ""),
      Ev("MH12AB1234", "ALERT", 22 * 60, "", "Truck leaving, entry denied"),
      Ev("MH12AB1234", "ALERT", 20 * 60, "", ""),
      Ev("MH12AB1234", "ALERT", 6 * 60, "", ""),
      Ev("MH12AB1234", "ALERT", MinutesPerDay + 14 * 60, "", ""),
      Ev("MH12AB1234", "ALLOW", 14 * 60, "", ""),
      Ev("MH12AB1234", "LOG_ONLY", 5 * 60, "", ""),
      Ev("MH12AB1234", "ALERT", 5 * 60 + 50, "", "Entering site"),
      Ev("KA05XY0001", "ALLOW", 5 * 60, "", ""),
      Ev("KA05XY0001", "ALERT", 5 * 60 + 59, "", ""),
      Ev("UNKNOWN", "ALERT", 22 * 60, "", "Truck leaving"),
      Ev("MH12AB1234", "ALERT", 20 * 60, "invalid_plate_format", "") }

(* vendor runs: two plates of one vendor, a plate of another vendor, an    *)
(* alert and a logged record of the first vendor, a delivery the next day, *)
(* and records that are dropped                                            *)
VendorPool ==
    { Ev("MH12AB1234", "ALLOW", 0, "", ""),
      Ev("MH14CD5678", "ALLOW", 10, "", ""),
      Ev("MH12AB1234", "ALLOW", 40, "", ""),
      Ev("MH14CD5678", "ALLOW", 50, "", ""),
      Ev("MH12AB1234", "ALERT", 20, "blacklist", ""),
      Ev("MH12AB1234", "LOG_ONLY", 5, "", ""),
      Ev("dl01cd5678", "ALLOW", 10, "", ""),
      Ev("MH12AB1234", "ALLOW", MinutesPerDay + 30, "", ""),
      Ev("", "ALLOW", 0, "", ""),
      Ev("MH12AB1234", "ALLOW", 10, "invalid_plate_format", "") }

(* label runs: descriptions with keywords of one and of two categories,    *)
(* rule names with and without 'gate', plates of known, unknown and        *)
(* lower-case state codes and a plate of one character                     *)
LabelPool ==
    { Ev("MH12AB1234", "ALLOW", 0, "", "Crane delivery at gate 7b"),
      Ev("mh12zz0001", "ALLOW", 10, "North Gate", "excavator near gate 2"),
      Ev("XK01AA0001", "ALLOW", 10, "blacklist", "Staff personnel at Gate 4"),
      Ev("7", "ALLOW", 0, "", ""),
      Ev("DL01CD5678", "ALERT", 10, "", "STAFF truck leaving"),
      Ev("dl01cd5678", "ALLOW", 20, "", "Employee"),
      Ev("xk99", "LOG_ONLY", 5, "GATEWAY", ""),
      Ev("MH12AB1234", "ALLOW", 30, "", "Material delivery"),
      Ev("", "ALLOW", 0, "", "crane"),
      Ev("MH12AB1234", "LOG_ONLY", 10, "invalid_plate_format", "") }

WithId(e, i) ==
    [id |-> i, plate_text |-> e.plate_text, event_type |-> e.event_type,
     timestamp |-> e.timestamp, rule_name |-> e.rule_name,
     description |-> e.description]

(* a list of at most maxLen events of the pool, ids in arrival order       *)
IsEventList(list, pool, maxLen) ==
    \E n \in 0..maxLen : \E f \in [1..n -> pool] :
        list = [i \in 1..n |-> WithId(f[i], i)]

----------------------------------------------------------------------------
(* The run                                                                 *)

(* ConstructionSiteComponent, lines 33-46: the fields of a new component,   *)
(* no request issued                                                       *)
Constructed ==
    /\ inflight = {}
    /\ issued = 0
    /\ cancelled = {}
    /\ ticks = 0
    /\ lifecycle = "constructed"
    /\ liveEvents = <<>>
    /\ liveEventsLoading = FALSE
    /\ liveEventsError = <<>>
    /\ theftAlerts = <<>>
    /\ alertsFrom = 0
    /\ alertsLoading = FALSE
    /\ alertsError = <<>>
    /\ alertsRefreshSubscription = "undefined"
    /\ vendorAnalytics = <<>>
    /\ analyticsLoading = FALSE
    /\ analyticsError = <<>>

InitRun ==
    /\ log = <<>>
    /\ Constructed
    /\ sortedEvents = <<>>
    /\ idx = 1
    /\ vehicleEntries = EmptyMap
    /\ result = <<>>
    /\ alerts = <<>>
    /\ analytics = <<>>
    /\ today = 0
    /\ previous = <<>>
    /\ pc = "start"

Init == IsEventList(events, SessionPool, MaxEvents) /\ InitRun

InitDirection == IsEventList(events, DirectionPool, MaxShort) /\ InitRun

InitDropped == IsEventList(events, DroppedPool, MaxShort) /\ InitRun

InitAlerts == IsEventList(events, AlertPool, MaxShort) /\ InitRun

InitVendor == IsEventList(events, VendorPool, MaxShort) /\ InitRun

InitLabels == IsEventList(events, LabelPool, MaxShort) /\ InitRun

(* variant: the session map outlives the run                               *)
SortEvents_KeepsSessions ==
    /\ pc = "start"
    /\ sortedEvents' = SortByTimestampAsc(events)
    /\ vehicleEntries' = vehicleEntries
    /\ result' = <<>>
    /\ idx' = 1
    /\ pc' = "scan"
    /\ UNCHANGED <<events, alerts, analytics, today, previous, componentVars>>

(* variant: the scan walks the events in arrival order                     *)
SortEvents_ArrivalOrder ==
    /\ pc = "start"
    /\ sortedEvents' = events
    /\ vehicleEntries' = EmptyMap
    /\ result' = <<>>
    /\ idx' = 1
    /\ pc' = "scan"
    /\ UNCHANGED <<events, alerts, analytics, today, previous, componentVars>>

(* variant: events.sort(...) without the copy                              *)
SortEvents_InPlace ==
    /\ pc = "start"
    /\ events' = SortByTimestampAsc(events)
    /\ sortedEvents' = SortByTimestampAsc(events)
    /\ vehicleEntries' = EmptyMap
    /\ result' = <<>>
    /\ idx' = 1
    /\ pc' = "scan"
    /\ UNCHANGED <<alerts, analytics, today, previous, componentVars>>

(* lines 143-156: sorted copy, empty map, empty result                     *)
SortEvents ==
    /\ pc = "start"
    /\ sortedEvents' = SortByTimestampAsc(events)
    /\ vehicleEntries' = EmptyMap
    /\ result' = <<>>
    /\ idx' = 1
    /\ pc' = "scan"
    /\ UNCHANGED <<events, alerts, analytics, today, previous, componentVars>>

Scanning == pc = "scan" /\ idx <= Len(sortedEvents)

ScanState == [vehicleEntries |-> vehicleEntries, result |-> result]

(* lines 159-162                                                           *)
SkipUnknownPlate ==
    /\ Scanning
    /\ IsUnknownPlate(sortedEvents[idx])
    /\ idx' = idx + 1
    /\ UNCHANGED <<events, sortedEvents, vehicleEntries, result, alerts, analytics, pc, today, previous,
                   componentVars>>

(* lines 164-168                                                           *)
SkipInvalidPlateFormat ==
    /\ Scanning
    /\ ~IsUnknownPlate(sortedEvents[idx])
    /\ IsInvalidPlateFormat(sortedEvents[idx])
    /\ idx' = idx + 1
    /\ UNCHANGED <<events, sortedEvents, vehicleEntries, result, alerts, analytics, pc, today, previous,
                   componentVars>>

(* lines 174-249                                                           *)
TrackAllowEvent ==
    /\ Scanning
    /\ ~IsUnknownPlate(sortedEvents[idx])
    /\ ~IsInvalidPlateFormat(sortedEvents[idx])
    /\ IsAllowEvent(sortedEvents[idx])
    /\ LET st == AllowBranch(ScanState, sortedEvents[idx])
       IN /\ vehicleEntries' = st.vehicleEntries
          /\ result' = st.result
    /\ idx' = idx + 1
    /\ UNCHANGED <<events, sortedEvents, alerts, analytics, pc, today, previous,
                   componentVars>>

(* lines 250-286                                                           *)
DisplayNonAllowEvent ==
    /\ Scanning
    /\ ~IsUnknownPlate(sortedEvents[idx])
    /\ ~IsInvalidPlateFormat(sortedEvents[idx])
    /\ ~IsAllowEvent(sortedEvents[idx])
    /\ LET st == NonAllowBranch(ScanState, sortedEvents[idx])
       IN /\ vehicleEntries' = st.vehicleEntries
          /\ result' = st.result
    /\ idx' = idx + 1
    /\ UNCHANGED <<events, sortedEvents, alerts, analytics, pc, today, previous,
                   componentVars>>

(* variant: the list is returned in the order of the pushes                *)
SortResult_AsPushed ==
    /\ pc = "scan"
    /\ idx > Len(sortedEvents)
    /\ result' = result
    /\ pc' = "transformed"
    /\ UNCHANGED <<events, sortedEvents, idx, vehicleEntries, alerts, analytics, today, previous,
                   componentVars>>

(* lines 289-292                                                           *)
SortResult ==
    /\ pc = "scan"
    /\ idx > Len(sortedEvents)
    /\ result' = SortByTimestampDesc(result)
    /\ pc' = "transformed"
    /\ UNCHANGED <<events, sortedEvents, idx, vehicleEntries, alerts, analytics, today, previous,
                   componentVars>>

(* getMaterialTheftAlerts, lines 110-114, on the classified list           *)
IdentifyTheftAlerts ==
    /\ pc = "transformed"
    /\ alerts' = identifyTheftAlerts(result)
    /\ pc' = "alerted"
    /\ UNCHANGED <<events, sortedEvents, idx, vehicleEntries, result, analytics, today, previous,
                   componentVars>>

(* getVendorAnalytics, lines 130-134, on the classified list               *)
CalculateVendorAnalytics ==
    /\ pc = "alerted"
    /\ \E now \in NowTimes :
           /\ today' = StartOfDay(now)
           /\ analytics' = calculateVendorAnalytics(result, now)
    /\ pc' = "done"
    /\ UNCHANGED <<events, sortedEvents, idx, vehicleEntries, result, alerts, previous,
                   componentVars>>

(* the next tick of interval(intervalMs), lines 99-104 and 119-124: the    *)
(* subscriber keeps what the finished run returned and the pipeline is     *)
(* invoked again on the same snapshot                                      *)
AutoRefresh ==
    /\ pc = "done"
    /\ previous' = <<[result |-> result, alerts |-> alerts, analytics |-> analytics,
                      today |-> today]>>
    /\ pc' = "start"
    /\ UNCHANGED <<events, sortedEvents, idx, vehicleEntries, result, alerts, analytics,
                   today, componentVars>>

Next ==
    \/ SortEvents
    \/ SkipUnknownPlate
    \/ SkipInvalidPlateFormat
    \/ TrackAllowEvent
    \/ DisplayNonAllowEvent
    \/ SortResult
    \/ IdentifyTheftAlerts
    \/ CalculateVendorAnalytics

Spec == Init /\ [][Next]_vars

SpecDirection == InitDirection /\ [][Next]_vars

SpecDropped == InitDropped /\ [][Next]_vars

SpecAlerts == InitAlerts /\ [][Next]_vars

SpecVendor == InitVendor /\ [][Next]_vars

SpecLabels == InitLabels /\ [][Next]_vars

NextRefresh ==
    \/ Next
    \/ AutoRefresh

SpecRefresh == InitVendor /\ [][NextRefresh]_vars

----------------------------------------------------------------------------
(* ConstructionSiteComponent: the three loads and the alert auto-refresh   *)

(* the limits the requests carry: loadLiveEvents, loadTheftAlerts and      *)
(* getMaterialTheftAlertsAutoRefresh, getVendorAnalytics                    *)
LiveLimit == 100
AlertsLimit == 50
AnalyticsLimit == 200

(* GET /events?limit=..&skip=0: the most recent rows of the table, at most *)
(* limit of them                                                           *)
getEvents(rows, limit) ==
    IF Len(rows) <= limit THEN rows
    ELSE SubSeq(rows, Len(rows) - limit + 1, Len(rows))

getConstructionSiteEvents(rows, limit) ==
    transformToConstructionSiteEvents(getEvents(rows, limit))

getMaterialTheftAlerts(rows, limit) ==
    identifyTheftAlerts(getConstructionSiteEvents(rows, limit))

getVendorAnalytics(rows, now) ==
    calculateVendorAnalytics(getConstructionSiteEvents(rows, AnalyticsLimit), now)

Request(seq, call, limit) == [seq |-> seq, call |-> call, limit |-> limit]

(* the rows of the table, appended as they happen: a record of one plate,  *)
(* then none, AlertsLimit or LiveLimit rows of unread plates, then another *)
(* record of the plate                                                     *)
ComponentPool ==
    { Ev("MH12AB1234", "LOG_ONLY", 0, "", ""),
      Ev("MH12AB1234", "ALLOW", 0, "", ""),
      Ev("MH12AB1234", "ALLOW", 10, "", ""),
      Ev("MH12AB1234", "ALERT", 20, "blacklist", "") }

UnreadPlate == Ev("", "LOG_ONLY", 5, "", "Plate not readable")

IsLog(rows) ==
    \E head, tail \in {<<>>} \cup {<<e>> : e \in ComponentPool} :
        \E n \in {0, AlertsLimit, LiveLimit} :
            LET raw == head \o [i \in 1..n |-> UnreadPlate] \o tail
            IN /\ \A i \in 1..Len(raw) - 1 : raw[i].timestamp <= raw[i + 1].timestamp
               /\ rows = [i \in 1..Len(raw) |-> WithId(raw[i], i)]

InitComponent ==
    /\ IsLog(log)
    /\ Constructed
    /\ events = <<>>
    /\ sortedEvents = <<>>
    /\ idx = 1
    /\ vehicleEntries = EmptyMap
    /\ result = <<>>
    /\ alerts = <<>>
    /\ analytics = <<>>
    /\ today = 0
    /\ previous = <<>>
    /\ pc = "start"

(* ngOnInit, lines 56-63: the three loads subscribe, each issuing its      *)
(* request, and the auto-refresh subscribes; startWith(0) makes it issue   *)
(* its first request at once                                               *)
ngOnInit ==
    /\ lifecycle = "constructed"
    /\ lifecycle' = "alive"
    /\ liveEventsLoading' = TRUE
    /\ liveEventsError' = <<>>
    /\ alertsLoading' = TRUE
    /\ alertsError' = <<>>
    /\ analyticsLoading' = TRUE
    /\ analyticsError' = <<>>
    /\ alertsRefreshSubscription' = "open"
    /\ inflight' = { Request(1, "loadLiveEvents", LiveLimit),
                     Request(2, "loadTheftAlerts", AlertsLimit),
                     Request(3, "loadVendorAnalytics", AnalyticsLimit),
                     Request(4, "startAlertsAutoRefresh", AlertsLimit) }
    /\ issued' = 4
    /\ UNCHANGED <<log, cancelled, ticks, liveEvents, theftAlerts, alertsFrom, vendorAnalytics,
                   runVars>>

(* loadLiveEvents, next: lines 81-85                                       *)
LiveEventsNext ==
    \E r \in inflight :
        /\ r.call = "loadLiveEvents"
        /\ liveEvents' = getConstructionSiteEvents(log, r.limit)
        /\ liveEventsLoading' = FALSE
        /\ inflight' = inflight \ {r}
        /\ UNCHANGED <<log, issued, cancelled, ticks, lifecycle, liveEventsError, theftAlerts, alertsFrom,
                       alertsLoading, alertsError, alertsRefreshSubscription,
                       vendorAnalytics, analyticsLoading, analyticsError, runVars>>

(* loadLiveEvents, error: lines 86-91                                      *)
LiveEventsError ==
    \E r \in inflight :
        /\ r.call = "loadLiveEvents"
        /\ liveEventsError' = <<"Failed to load live events">>
        /\ liveEventsLoading' = FALSE
        /\ inflight' = inflight \ {r}
        /\ UNCHANGED <<log, issued, cancelled, ticks, lifecycle, liveEvents, theftAlerts, alertsFrom,
                       alertsLoading, alertsError, alertsRefreshSubscription,
                       vendorAnalytics, analyticsLoading, analyticsError, runVars>>

(* loadTheftAlerts, next: lines 104-108                                    *)
TheftAlertsNext ==
    \E r \in inflight :
        /\ r.call = "loadTheftAlerts"
        /\ theftAlerts' = getMaterialTheftAlerts(log, r.limit)
        /\ alertsFrom' = r.seq
        /\ alertsLoading' = FALSE
        /\ inflight' = inflight \ {r}
        /\ UNCHANGED <<log, issued, cancelled, ticks, lifecycle, liveEvents, liveEventsLoading,
                       liveEventsError, alertsError, alertsRefreshSubscription,
                       vendorAnalytics, analyticsLoading, analyticsError, runVars>>

(* loadTheftAlerts, error: lines 109-114                                   *)
TheftAlertsError ==
    \E r \in inflight :
        /\ r.call = "loadTheftAlerts"
        /\ alertsError' = <<"Failed to load theft alerts">>
        /\ alertsLoading' = FALSE
        /\ inflight' = inflight \ {r}
        /\ UNCHANGED <<log, issued, cancelled, ticks, lifecycle, liveEvents, liveEventsLoading,
                       liveEventsError, theftAlerts, alertsFrom, alertsRefreshSubscription,
                       vendorAnalytics, analyticsLoading, analyticsError, runVars>>

(* loadVendorAnalytics, next: lines 144-148                                *)
VendorAnalyticsNext ==
    \E r \in inflight : \E now \in NowTimes :
        /\ r.call = "loadVendorAnalytics"
        /\ vendorAnalytics' = getVendorAnalytics(log, now)
        /\ analyticsLoading' = FALSE
        /\ inflight' = inflight \ {r}
        /\ UNCHANGED <<log, issued, cancelled, ticks, lifecycle, liveEvents, liveEventsLoading,
                       liveEventsError, theftAlerts, alertsFrom, alertsLoading, alertsError,
                       alertsRefreshSubscription, analyticsError, runVars>>

(* loadVendorAnalytics, error: lines 149-154                               *)
VendorAnalyticsError ==
    \E r \in inflight :
        /\ r.call = "loadVendorAnalytics"
        /\ analyticsError' = <<"Failed to load vendor analytics">>
        /\ analyticsLoading' = FALSE
        /\ inflight' = inflight \ {r}
        /\ UNCHANGED <<log, issued, cancelled, ticks, lifecycle, liveEvents, liveEventsLoading,
                       liveEventsError, theftAlerts, alertsFrom, alertsLoading, alertsError,
                       alertsRefreshSubscription, vendorAnalytics, runVars>>

(* startAlertsAutoRefresh, next: lines 125-128                             *)
AutoRefreshNext ==
    \E r \in inflight :
        /\ r.call = "startAlertsAutoRefresh"
        /\ theftAlerts' = getMaterialTheftAlerts(log, r.limit)
        /\ alertsFrom' = r.seq
        /\ inflight' = inflight \ {r}
        /\ UNCHANGED <<log, issued, cancelled, ticks, lifecycle, liveEvents, liveEventsLoading,
                       liveEventsError, alertsLoading, alertsError,
                       alertsRefreshSubscription, vendorAnalytics, analyticsLoading,
                       analyticsError, runVars>>

(* startAlertsAutoRefresh, error: lines 129-131. The error of the inner    *)
(* request passes through switchMap and ends the stream: the subscription  *)
(* is closed and interval is torn down                                     *)
AutoRefreshError ==
    \E r \in inflight :
        /\ r.call = "startAlertsAutoRefresh"
        /\ alertsRefreshSubscription' = "closed"
        /\ inflight' = inflight \ {r}
        /\ UNCHANGED <<log, issued, cancelled, ticks, lifecycle, liveEvents, liveEventsLoading,
                       liveEventsError, theftAlerts, alertsFrom, alertsLoading, alertsError,
                       vendorAnalytics, analyticsLoading, analyticsError, runVars>>

(* variant: mergeMap, the pending request of the stream is left alone      *)
IntervalTick_MergeMap ==
    /\ lifecycle # "constructed"
    /\ ticks < MaxTicks
    /\ ticks' = ticks + 1
    /\ IF alertsRefreshSubscription = "open"
       THEN /\ inflight' = inflight
                              \cup {Request(issued + 1, "startAlertsAutoRefresh",
                                            AlertsLimit)}
            /\ cancelled' = cancelled
            /\ issued' = issued + 1
       ELSE UNCHANGED <<inflight, cancelled, issued>>
    /\ UNCHANGED <<log, lifecycle, liveEvents, liveEventsLoading, liveEventsError,
                   theftAlerts, alertsFrom, alertsLoading, alertsError, alertsRefreshSubscription,
                   vendorAnalytics, analyticsLoading, analyticsError, runVars>>

(* 5000 ms pass after ngOnInit. While the subscription is                  *)
(* open interval emits and switchMap (part_005 lines 120-123) drops the    *)
(* pending request of the stream and issues a new one; a closed            *)
(* subscription has no timer left                                          *)
IntervalTick ==
    /\ lifecycle # "constructed"
    /\ ticks < MaxTicks
    /\ ticks' = ticks + 1
    /\ IF alertsRefreshSubscription = "open"
       THEN /\ inflight' = {r \in inflight : r.call # "startAlertsAutoRefresh"}
                              \cup {Request(issued + 1, "startAlertsAutoRefresh",
                                            AlertsLimit)}
            /\ cancelled' = cancelled \cup
                    {r.seq : r \in {q \in inflight : q.call = "startAlertsAutoRefresh"}}
            /\ issued' = issued + 1
       ELSE UNCHANGED <<inflight, cancelled, issued>>
    /\ UNCHANGED <<log, lifecycle, liveEvents, liveEventsLoading, liveEventsError,
                   theftAlerts, alertsFrom, alertsLoading, alertsError, alertsRefreshSubscription,
                   vendorAnalytics, analyticsLoading, analyticsError, runVars>>

(* variant: the subscription is left open                                  *)
ngOnDestroy_NoUnsubscribe ==
    /\ lifecycle = "alive"
    /\ lifecycle' = "destroyed"
    /\ UNCHANGED <<alertsRefreshSubscription, inflight, cancelled>>
    /\ UNCHANGED <<log, issued, ticks, liveEvents, liveEventsLoading, liveEventsError,
                   theftAlerts, alertsFrom, alertsLoading, alertsError, vendorAnalytics,
                   analyticsLoading, analyticsError, runVars>>

(* ngOnDestroy, lines 65-70: unsubscribe() closes the auto-refresh         *)
(* subscription and with it the pending request of the stream; the three   *)
(* loads stay subscribed                                                   *)
ngOnDestroy ==
    /\ lifecycle = "alive"
    /\ lifecycle' = "destroyed"
    /\ IF alertsRefreshSubscription # "undefined"
       THEN /\ alertsRefreshSubscription' = "closed"
            /\ inflight' = {r \in inflight : r.call # "startAlertsAutoRefresh"}
            /\ cancelled' = cancelled \cup
                    {r.seq : r \in {q \in inflight : q.call = "startAlertsAutoRefresh"}}
       ELSE UNCHANGED <<alertsRefreshSubscription, inflight, cancelled>>
    /\ UNCHANGED <<log, issued, ticks, liveEvents, liveEventsLoading, liveEventsError,
                   theftAlerts, alertsFrom, alertsLoading, alertsError, vendorAnalytics,
                   analyticsLoading, analyticsError, runVars>>

NextComponent ==
    \/ ngOnInit
    \/ LiveEventsNext
    \/ LiveEventsError
    \/ TheftAlertsNext
    \/ TheftAlertsError
    \/ VendorAnalyticsNext
    \/ VendorAnalyticsError
    \/ AutoRefreshNext
    \/ AutoRefreshError
    \/ IntervalTick
    \/ ngOnDestroy

SpecComponent == InitComponent /\ [][NextComponent]_vars

----------------------------------------------------------------------------
(* Properties of the scan                                                  *)

Cur == sortedEvents[idx]

Last(s) == s[Len(s)]

(* an event that reaches the ALLOW branch                                  *)
Tracked(e) == ~IsUnknownPlate(e) /\ ~IsInvalidPlateFormat(e) /\ IsAllowEvent(e)

(* an event that reaches either branch                                     *)
Kept(e) == ~IsUnknownPlate(e) /\ ~IsInvalidPlateFormat(e)

TrackedStep == Scanning /\ Tracked(Cur)

(* the plate has counted movements                                         *)
Counted(p) ==
    /\ p \in DOMAIN vehicleEntries
    /\ vehicleEntries[p].entryCount > 0 \/ vehicleEntries[p].exitCount > 0

(* the step pushed one record, for the current event                       *)
PushedCur == Len(result') = Len(result) + 1 /\ Last(result').id = Cur.id

ExitWord(description) == HasExitKeyword(toLowerCase(description))
EntryWord(description) == HasEntryKeyword(toLowerCase(description))

IsAllowRecord(r) == r.decision = "ALLOW"

(* indices of the ALLOW records of plate p in result                       *)
AllowIndices(p) ==
    {i \in 1..Len(result) : result[i].plateNumber = p /\ IsAllowRecord(result[i])}

(* C1: the first ALLOW record processed for a plate (no counted movement   *)
(* yet) is classified Entry and makes entryCount 1, whatever its           *)
(* description and whatever non-ALLOW records of the plate came before.    *)
C1_FirstAllowIsEntry ==
    [][ (TrackedStep /\ ~Counted(PlateNumber(Cur)))
        => /\ PushedCur
           /\ Last(result').direction = "Entry"
           /\ vehicleEntries'[PlateNumber(Cur)].entryCount = 1
           /\ vehicleEntries'[PlateNumber(Cur)].exitCount = 0 ]_vars

(* a first ALLOW record with an exit keyword, after a non-ALLOW record of  *)
(* the same plate, was classified Entry                                    *)
C1_Witness ==
    /\ pc = "scan"
    /\ \E i \in 1..Len(result) :
        /\ IsAllowRecord(result[i])
        /\ ExitWord(result[i].description)
        /\ result[i].direction = "Entry"
        /\ \A j \in 1..(i - 1) :
              result[j].plateNumber = result[i].plateNumber => ~IsAllowRecord(result[j])
        /\ \E j \in 1..(i - 1) : result[j].plateNumber = result[i].plateNumber

(* C2: with counted movements and more than 2 hours since lastSeen (the    *)
(* plate's previous ALLOW record) the record is an Entry, entryCount is    *)
(* incremented and firstSeen reset, even when entryCount > exitCount; at   *)
(* exactly 2 hours the rule does not fire.                                 *)
C2_LongGapIsNewEntry ==
    [][ (TrackedStep /\ Counted(PlateNumber(Cur)))
        => LET p == PlateNumber(Cur)
               t == getTime(Cur.timestamp)
               vs == vehicleEntries[p]
               gap == t - vs.lastSeen
               prev == CHOOSE i \in AllowIndices(p) : \A j \in AllowIndices(p) : j <= i
           IN /\ vs.lastSeen = getTime(result[prev].timestamp)
              /\ vehicleEntries'[p].lastSeen = t
              /\ gap > 2 * 60 * 60 * 1000
                    => /\ PushedCur
                       /\ Last(result').direction = "Entry"
                       /\ vehicleEntries'[p].entryCount = vs.entryCount + 1
                       /\ vehicleEntries'[p].exitCount = vs.exitCount
                       /\ vehicleEntries'[p].firstSeen = t
              /\ gap = 2 * 60 * 60 * 1000
                    => /\ vehicleEntries'[p].firstSeen = vs.firstSeen
                       /\ vs.entryCount > vs.exitCount
                             => Last(result').direction = "Exit" ]_vars

(* second ALLOW record of a plate more than 2 hours after the first, which *)
(* was an unmatched Entry: two entries, no exit, firstSeen reset           *)
C2_Witness ==
    /\ pc = "scan"
    /\ \E p \in DOMAIN vehicleEntries :
        /\ vehicleEntries[p].entryCount = 2
        /\ vehicleEntries[p].exitCount = 0
        /\ vehicleEntries[p].firstSeen = vehicleEntries[p].lastSeen
        /\ \E i, j \in AllowIndices(p) :
              getTime(result[j].timestamp) - getTime(result[i].timestamp) > 2 * 60 * 60 * 1000

(* C3: with counted movements, at most 2 hours since lastSeen and          *)
(* entryCount > exitCount the record is an Exit and exitCount is           *)
(* incremented, whatever keyword the description holds.                    *)
C3_UnmatchedEntryMakesExit ==
    [][ (/\ TrackedStep
         /\ Counted(PlateNumber(Cur))
         /\ getTime(Cur.timestamp) - vehicleEntries[PlateNumber(Cur)].lastSeen
               <= 2 * 60 * 60 * 1000
         /\ vehicleEntries[PlateNumber(Cur)].entryCount
               > vehicleEntries[PlateNumber(Cur)].exitCount)
        => LET p == PlateNumber(Cur) IN
           /\ PushedCur
           /\ Last(result').direction = "Exit"
           /\ vehicleEntries'[p].exitCount = vehicleEntries[p].exitCount + 1
           /\ vehicleEntries'[p].entryCount = vehicleEntries[p].entryCount ]_vars

(* an ALLOW record with an entry keyword and no exit keyword was           *)
(* classified Exit                                                         *)
C3_Witness ==
    /\ pc = "scan"
    /\ \E i \in 1..Len(result) :
        /\ IsAllowRecord(result[i])
        /\ EntryWord(result[i].description)
        /\ ~ExitWord(result[i].description)
        /\ result[i].direction = "Exit"

(* C4: with counted movements, at most 2 hours since lastSeen and          *)
(* entryCount <= exitCount: an exit keyword gives Exit (also when an entry *)
(* keyword is present too) and increments exitCount; otherwise the record  *)
(* is an Entry and entryCount is incremented.                              *)
C4_KeywordsThenEntry ==
    [][ (/\ TrackedStep
         /\ Counted(PlateNumber(Cur))
         /\ getTime(Cur.timestamp) - vehicleEntries[PlateNumber(Cur)].lastSeen
               <= 2 * 60 * 60 * 1000
         /\ vehicleEntries[PlateNumber(Cur)].entryCount
               <= vehicleEntries[PlateNumber(Cur)].exitCount)
        => LET p == PlateNumber(Cur)
               exit == ExitWord(Cur.description)
           IN /\ PushedCur
              /\ Last(result').direction = IF exit THEN "Exit" ELSE "Entry"
              /\ vehicleEntries'[p].exitCount =
                    vehicleEntries[p].exitCount + (IF exit THEN 1 ELSE 0)
              /\ vehicleEntries'[p].entryCount =
                    vehicleEntries[p].entryCount + (IF exit THEN 0 ELSE 1)
              /\ vehicleEntries'[p].firstSeen = vehicleEntries[p].firstSeen ]_vars

(* a record with both an exit and an entry keyword was classified Exit by  *)
(* the keyword rule: the plate then has more exits than entries            *)
C4_Witness ==
    /\ pc = "scan"
    /\ Len(result) > 0
    /\ IsAllowRecord(Last(result))
    /\ ExitWord(Last(result).description)
    /\ EntryWord(Last(result).description)
    /\ Last(result).direction = "Exit"
    /\ vehicleEntries[Last(result).plateNumber].exitCount
          > vehicleEntries[Last(result).plateNumber].entryCount

(* the tracked events of plate p in the input (ids are list positions)     *)
TrackedOf(p) ==
    {i \in 1..Len(events) : Tracked(events[i]) /\ PlateNumber(events[i]) = p}

(* the direction given to the input event at position i                    *)
DirectionOf(i) ==
    result[CHOOSE k \in 1..Len(result) : result[k].id = events[i].id].direction

(* i, j, k are all the tracked events of their plate, at t0, t0 + 10 min   *)
(* and t0 + 3 h, none with a directional keyword                           *)
IsVisitTriple(i, j, k) ==
    /\ Tracked(events[i])
    /\ TrackedOf(PlateNumber(events[i])) = {i, j, k}
    /\ Cardinality({i, j, k}) = 3
    /\ events[j].timestamp = events[i].timestamp + 10
    /\ events[k].timestamp = events[i].timestamp + 3 * 60
    /\ \A x \in {i, j, k} :
          ~ExitWord(events[x].description) /\ ~EntryWord(events[x].description)

(* C5: three ALLOW records of a plate at t0, t0+10min, t0+3h without       *)
(* keywords get Entry, Exit, Entry, whatever else is in the list.          *)
C5_EntryExitEntry ==
    pc = "transformed"
    => \A i, j, k \in 1..Len(events) :
          IsVisitTriple(i, j, k)
          => /\ DirectionOf(i) = "Entry"
             /\ DirectionOf(j) = "Exit"
             /\ DirectionOf(k) = "Entry"

(* such a triple with a non-ALLOW record of the same plate in between      *)
C5_Witness ==
    /\ pc = "transformed"
    /\ \E i, j, k \in 1..Len(events) :
        /\ IsVisitTriple(i, j, k)
        /\ \E x \in 1..Len(events) :
              /\ Kept(events[x])
              /\ ~IsAllowEvent(events[x])
              /\ PlateNumber(events[x]) = PlateNumber(events[i])
              /\ events[x].timestamp > events[i].timestamp
              /\ events[x].timestamp < events[k].timestamp

AllowOnly(list) == SelectSeq(list, IsAllowEvent)

AllowRecordsOnly(list) == SelectSeq(list, IsAllowRecord)

(* C6: non-ALLOW records neither read nor change session state: after      *)
(* every step the session map, and the ALLOW records classified so far,    *)
(* are those of the run on the input without its non-ALLOW records, and    *)
(* so is the ALLOW part of the returned list.                              *)
C6_NonAllowLeavesSessionsAlone ==
    LET reference == SortByTimestampAsc(AllowOnly(events))
        done == Len(AllowOnly(SubSeq(sortedEvents, 1, idx - 1)))
        run == ScanAll(SubSeq(reference, 1, done))
    IN /\ pc = "scan"
          => /\ vehicleEntries = run.vehicleEntries
             /\ AllowRecordsOnly(result) = run.result
       /\ pc = "transformed"
          => /\ vehicleEntries = run.vehicleEntries
             /\ AllowRecordsOnly(result) = SortByTimestampDesc(run.result)

(* an ALLOW record was classified after a non-ALLOW record of its plate    *)
(* that follows an earlier ALLOW record of the plate                       *)
C6_Witness ==
    /\ pc = "scan"
    /\ \E i, j, k \in 1..Len(result) :
        /\ i < j /\ j < k
        /\ IsAllowRecord(result[i]) /\ ~IsAllowRecord(result[j]) /\ IsAllowRecord(result[k])
        /\ result[i].plateNumber = result[j].plateNumber
        /\ result[j].plateNumber = result[k].plateNumber

(* C7: every non-ALLOW record, ALERT or LOG_ONLY, gets its direction from  *)
(* the description keywords: Exit with an exit keyword, else Entry with    *)
(* an entry keyword.                                                       *)
C7_NonAllowFollowsKeywords ==
    \A i \in 1..Len(result) :
        ~IsAllowRecord(result[i])
        => /\ ExitWord(result[i].description) => result[i].direction = "Exit"
           /\ (~ExitWord(result[i].description) /\ EntryWord(result[i].description))
                 => result[i].direction = "Entry"

(* C8: a non-ALLOW record without any directional keyword is an Exit when  *)
(* it is an ALERT and an Entry when it is LOG_ONLY.                        *)
C8_NonAllowDefaults ==
    \A i \in 1..Len(result) :
        (/\ ~IsAllowRecord(result[i])
         /\ ~ExitWord(result[i].description)
         /\ ~EntryWord(result[i].description))
        => /\ result[i].decision = "ALERT" => result[i].direction = "Exit"
           /\ result[i].decision = "LOG_ONLY" => result[i].direction = "Entry"

(* both defaults were applied in one run                                   *)
C8_Witness ==
    /\ \E i \in 1..Len(result) :
        /\ result[i].decision = "ALERT"
        /\ result[i].description = ""
        /\ result[i].direction = "Exit"
    /\ \E i \in 1..Len(result) :
        /\ result[i].decision = "LOG_ONLY"
        /\ result[i].description = ""
        /\ result[i].direction = "Entry"

(* a record the claim calls dropped: the plate is the sentinel or missing, *)
(* or the rule name is the invalid-format marker                           *)
IsSentinelOrInvalid(e) ==
    e.plate_text \in {"", "UNKNOWN"} \/ e.rule_name = "invalid_plate_format"

NotSentinelOrInvalid(e) == ~IsSentinelOrInvalid(e)

SentinelOrInvalidIds ==
    {events[i].id : i \in {j \in 1..Len(events) : IsSentinelOrInvalid(events[j])}}

(* C9: a record with the sentinel (or no) plate or the invalid-format rule *)
(* name is in no classified record, no alert and no vendor row, and the    *)
(* session map is what it is without such records.                         *)
C9_DroppedRecordsLeaveNoTrace ==
    /\ \A i \in 1..Len(result) : result[i].id \notin SentinelOrInvalidIds
    /\ \A i \in 1..Len(alerts) : alerts[i].id \notin SentinelOrInvalidIds
    /\ pc = "scan"
          => vehicleEntries =
                ScanAll(SelectSeq(SubSeq(sortedEvents, 1, idx - 1),
                                  NotSentinelOrInvalid)).vehicleEntries
    /\ pc \in {"transformed", "alerted", "done"}
          => result = transformToConstructionSiteEvents(SelectSeq(events, NotSentinelOrInvalid))
    /\ pc \in {"alerted", "done"}
          => alerts = identifyTheftAlerts(
                          transformToConstructionSiteEvents(
                              SelectSeq(events, NotSentinelOrInvalid)))
    /\ pc = "done"
          => \E now \in NowTimes :
                analytics = calculateVendorAnalytics(
                                transformToConstructionSiteEvents(
                                    SelectSeq(events, NotSentinelOrInvalid)), now)

(* a finished run with alerts and vendor rows whose input held a dropped   *)
(* ALERT record with an exit keyword and a dropped ALLOW record            *)
C9_Witness ==
    /\ pc = "done"
    /\ alerts # <<>>
    /\ analytics # <<>>
    /\ \E i \in 1..Len(events) :
          /\ IsSentinelOrInvalid(events[i])
          /\ events[i].event_type = "ALERT"
          /\ ExitWord(events[i].description)

(* C10: every event that is not dropped yields exactly one classified      *)
(* record with its id, plate, timestamp and decision and one direction;    *)
(* the classified list holds nothing else and no id twice.                 *)
C10_OneRecordPerKeptEvent ==
    /\ \A i \in 1..Len(result) :
        /\ result[i].direction \in {"Entry", "Exit"}
        /\ \E j \in 1..Len(events) :
              /\ Kept(events[j])
              /\ result[i].id = events[j].id
              /\ result[i].plateNumber = events[j].plate_text
              /\ result[i].timestamp = events[j].timestamp
              /\ result[i].decision = events[j].event_type
    /\ \A i, j \in 1..Len(result) : result[i].id = result[j].id => i = j
    /\ pc = "transformed"
          => \A j \in 1..Len(events) :
                Kept(events[j]) => \E i \in 1..Len(result) : result[i].id = events[j].id

(* a finished run that kept ALLOW and non-ALLOW events and dropped one     *)
C10_Witness ==
    /\ pc = "transformed"
    /\ Len(result) < Len(events)
    /\ \E i, j \in 1..Len(result) : IsAllowRecord(result[i]) /\ ~IsAllowRecord(result[j])

----------------------------------------------------------------------------
(* Properties of the alerts                                                *)

(* identifyTheftAlerts has returned                                        *)
AlertsReturned == pc \in {"alerted", "done"}

IsAlertExitRecord(r) == r.direction = "Exit" /\ r.decision = "ALERT"

(* positions of the alerts of one type raised for one record               *)
AlertIndices(alertType, id) ==
    {i \in 1..Len(alerts) : alerts[i].alertType = alertType /\ alerts[i].id = id}

(* an Entry record of the same plate strictly before r and less than 24    *)
(* hours before it, in minutes                                             *)
EntryWithinDayBefore(r) ==
    \E j \in 1..Len(result) :
        /\ result[j].plateNumber = r.plateNumber
        /\ result[j].direction = "Entry"
        /\ result[j].timestamp < r.timestamp
        /\ r.timestamp - result[j].timestamp < 24 * 60

(* C11: exactly one 'Unauthorized Exit' alert for every classified record  *)
(* with direction Exit and decision ALERT, carrying its id, plate and      *)
(* timestamp, and none for any other record.                               *)
C11_OneUnauthorizedExitPerAlertedExit ==
    AlertsReturned =>
        /\ \A j \in 1..Len(result) :
              LET raised == AlertIndices("Unauthorized Exit", result[j].id) IN
              IF IsAlertExitRecord(result[j])
              THEN /\ Cardinality(raised) = 1
                   /\ \A i \in raised :
                         /\ alerts[i].plateNumber = result[j].plateNumber
                         /\ alerts[i].timestamp = result[j].timestamp
              ELSE raised = {}
        /\ \A i \in 1..Len(alerts) :
              alerts[i].alertType = "Unauthorized Exit"
                  => \E j \in 1..Len(result) : result[j].id = alerts[i].id

(* an alerted exit was reported beside an alerted entry that was not       *)
C11_Witness ==
    /\ AlertsReturned
    /\ \E j, k \in 1..Len(result) :
          /\ IsAlertExitRecord(result[j])
          /\ AlertIndices("Unauthorized Exit", result[j].id) # {}
          /\ result[k].decision = "ALERT" /\ result[k].direction = "Entry"
          /\ result[k].plateNumber = result[j].plateNumber

(* C12: an alerted exit gets a 'No Matching Entry' alert exactly when no   *)
(* Entry record of its plate, of any decision, lies strictly before it and *)
(* less than 24 hours before it.                                           *)
C12_NoMatchingEntryIffUnmatched ==
    AlertsReturned =>
        \A j \in 1..Len(result) :
            IsAlertExitRecord(result[j]) =>
                (AlertIndices("No Matching Entry", result[j].id) # {}
                    <=> ~EntryWithinDayBefore(result[j]))

(* an alerted exit reported as unmatched although its plate entered        *)
(* exactly 24 hours earlier                                                *)
C12_Witness ==
    /\ AlertsReturned
    /\ \E j, k \in 1..Len(result) :
          /\ IsAlertExitRecord(result[j])
          /\ AlertIndices("No Matching Entry", result[j].id) # {}
          /\ result[k].plateNumber = result[j].plateNumber
          /\ result[k].direction = "Entry"
          /\ result[j].timestamp - result[k].timestamp = 24 * 60

(* an alerted event whose description contains 'leaving' and whose plate   *)
(* has no earlier Entry record                                             *)
LeavingWithoutEntry(e) ==
    /\ Kept(e)
    /\ e.event_type = "ALERT"
    /\ Includes(e.description, "leaving")
    /\ ~\E j \in 1..Len(result) :
          /\ result[j].plateNumber = e.plate_text
          /\ result[j].direction = "Entry"
          /\ result[j].timestamp < e.timestamp

(* C13: through classification and alert detection, an ALERT event whose   *)
(* description contains 'leaving' and whose plate has no earlier Entry     *)
(* record gets both an 'Unauthorized Exit' and a 'No Matching Entry'       *)
(* alert.                                                                  *)
C13_LeavingAlertGetsBothAlerts ==
    AlertsReturned =>
        \A k \in 1..Len(events) :
            LeavingWithoutEntry(events[k]) =>
                /\ AlertIndices("Unauthorized Exit", events[k].id) # {}
                /\ AlertIndices("No Matching Entry", events[k].id) # {}

(* such an event was reported twice while its plate has an Entry record    *)
(* that is not earlier                                                     *)
C13_Witness ==
    /\ AlertsReturned
    /\ \E k \in 1..Len(events) :
          /\ LeavingWithoutEntry(events[k])
          /\ AlertIndices("Unauthorized Exit", events[k].id) # {}
          /\ AlertIndices("No Matching Entry", events[k].id) # {}
          /\ EntryWord(events[k].description)

(* C14: an alerted exit gets an 'After Hours Exit' alert exactly when its  *)
(* local hour of day is below 6 or at least 20.                            *)
C14_AfterHoursIffOutsideSixToTwenty ==
    AlertsReturned =>
        \A j \in 1..Len(result) :
            IsAlertExitRecord(result[j]) =>
                (AlertIndices("After Hours Exit", result[j].id) # {}
                    <=> LET hour == (result[j].timestamp \div 60) % 24
                        IN hour < 6 \/ hour >= 20)

(* an alerted exit at 20:00 was reported, one at 06:00 was not             *)
C14_Witness ==
    /\ AlertsReturned
    /\ \E j, k \in 1..Len(result) :
          /\ IsAlertExitRecord(result[j]) /\ result[j].timestamp = 20 * 60
          /\ AlertIndices("After Hours Exit", result[j].id) # {}
          /\ IsAlertExitRecord(result[k]) /\ result[k].timestamp = 6 * 60
          /\ AlertIndices("After Hours Exit", result[k].id) = {}

(* C15: every alert, of every type, refers to a classified record with     *)
(* decision ALERT and direction Exit.                                      *)
C15_AlertsOnlyForAlertedExits ==
    AlertsReturned =>
        \A i \in 1..Len(alerts) :
            \E j \in 1..Len(result) :
                result[j].id = alerts[i].id /\ IsAlertExitRecord(result[j])

(* an allowed exit before 06:00 without an earlier entry raised no alert,  *)
(* while an alerted exit did                                               *)
C15_Witness ==
    /\ AlertsReturned
    /\ alerts # <<>>
    /\ \E j \in 1..Len(result) :
          /\ result[j].direction = "Exit" /\ result[j].decision = "ALLOW"
          /\ ~EntryWithinDayBefore(result[j])
          /\ (result[j].timestamp \div 60) % 24 < 6
          /\ \A i \in 1..Len(alerts) : alerts[i].id # result[j].id

(* C16: the returned alert list is sorted by timestamp, most recent first. *)
C16_AlertsNewestFirst ==
    AlertsReturned =>
        \A i \in 1..(Len(alerts) - 1) : alerts[i].timestamp >= alerts[i + 1].timestamp

(* the alerts were pushed in another order than the one returned           *)
C16_Witness ==
    /\ AlertsReturned
    /\ AlertsOfPlates(result, PlateKeys(result)) # alerts
    /\ \E i, j \in 1..Len(alerts) : alerts[i].timestamp # alerts[j].timestamp

----------------------------------------------------------------------------
(* Properties of the vendor analytics                                      *)

(* the ALLOW records of one vendor in the classified list, in list order   *)
VendorGroup(vendorName) ==
    LET InGroup(r) == IsAllowRecord(r) /\ getVendorName(r.plateNumber) = vendorName
    IN SelectSeq(result, InGroup)

IsEntryRecord(r) == r.direction = "Entry"

IsExitRecord(r) == r.direction = "Exit"

ExitGaps(exits, entry) ==
    {exits[j].timestamp - entry.timestamp : j \in
        {j \in 1..Len(exits) : /\ exits[j].timestamp > entry.timestamp
                               /\ exits[j].timestamp - entry.timestamp < 24 * 60}}

Smallest(gaps) == CHOOSE g \in gaps : \A h \in gaps : g <= h

(* sum and count of the gaps to the earliest qualifying exit, over the     *)
(* entries that have one                                                   *)
EarliestExitAverage(group) ==
    LET entries == SelectSeq(group, IsEntryRecord)
        exits == SelectSeq(group, IsExitRecord)
        HasExit(entry) == ExitGaps(exits, entry) # {}
        matched == SelectSeq(entries, HasExit)
        gaps == [i \in 1..Len(matched) |-> Smallest(ExitGaps(exits, matched[i]))]
    IN IF Len(gaps) > 0 THEN <<[sum |-> Sum(gaps), count |-> Len(gaps)]>> ELSE <<>>

(* C18: on the list produced by transformToConstructionSiteEvents, the     *)
(* duration collected for each Entry of a vendor group is the gap to the   *)
(* earliest Exit of the group strictly after it and less than 24 hours     *)
(* after it, so averageDuration is the mean of those gaps.                 *)
C18_DurationToEarliestExit ==
    pc = "done" =>
        \A i \in 1..Len(analytics) :
            analytics[i].averageDuration =
                EarliestExitAverage(VendorGroup(analytics[i].vendorName))

(* the vendor group is two entries dated today and one exit 40 minutes     *)
(* after the earlier entry                                                 *)
TwoEntriesOneExit(group) ==
    LET entries == SelectSeq(group, IsEntryRecord)
        exits == SelectSeq(group, IsExitRecord)
    IN /\ Len(entries) = 2
       /\ Len(exits) = 1
       /\ \A i \in 1..2 : StartOfDay(entries[i].timestamp) = today
       /\ \E i \in 1..2 :
             /\ \A j \in 1..2 : entries[i].timestamp <= entries[j].timestamp
             /\ exits[1].timestamp - entries[i].timestamp = 40

(* the later of the two entries of such a group                            *)
SecondEntry(group) ==
    LET entries == SelectSeq(group, IsEntryRecord)
    IN IF entries[1].timestamp >= entries[2].timestamp THEN entries[1] ELSE entries[2]

(* C19 as stated: such a vendor has deliveriesToday = 2 and an average of  *)
(* 40 minutes from exactly one pair, wherever the second Entry falls.      *)
C19_OnePairWhereverSecondEntryFalls ==
    pc = "done" =>
        \A i \in 1..Len(analytics) :
            TwoEntriesOneExit(VendorGroup(analytics[i].vendorName)) =>
                /\ analytics[i].deliveriesToday = 2
                /\ analytics[i].averageDuration = <<[sum |-> 40, count |-> 1]>>

(* C19, amended: such a vendor has deliveriesToday = 2; the average is 40  *)
(* minutes from one pair when the second Entry is not before the Exit, and *)
(* when it is strictly before the Exit it is paired with that Exit too, so *)
(* the average is over two pairs.                                          *)
C19_OnePairUnlessSecondEntryBeforeExit ==
    pc = "done" =>
        \A i \in 1..Len(analytics) :
            LET group == VendorGroup(analytics[i].vendorName) IN
            TwoEntriesOneExit(group) =>
                LET exit == SelectSeq(group, IsExitRecord)[1]
                    second == SecondEntry(group)
                IN /\ analytics[i].deliveriesToday = 2
                   /\ analytics[i].averageDuration =
                        IF second.timestamp < exit.timestamp
                        THEN <<[sum |-> 40 + (exit.timestamp - second.timestamp),
                                count |-> 2]>>
                        ELSE <<[sum |-> 40, count |-> 1]>>

(* such a vendor, its second entry 10 minutes after the first, on another  *)
(* plate                                                                   *)
C19_Witness ==
    /\ pc = "done"
    /\ \E i \in 1..Len(analytics) :
          LET group == VendorGroup(analytics[i].vendorName) IN
          /\ TwoEntriesOneExit(group)
          /\ SecondEntry(group).timestamp < SelectSeq(group, IsExitRecord)[1].timestamp
          /\ SecondEntry(group).plateNumber # SelectSeq(group, IsExitRecord)[1].plateNumber

(* C20 as stated: a second run on the same input returns the same three    *)
(* collections as the first, depending on nothing but the input.           *)
C20_SecondRunEqualsFirst ==
    (pc = "done" /\ previous # <<>>) =>
        /\ result = previous[1].result
        /\ alerts = previous[1].alerts
        /\ analytics = previous[1].analytics

(* C20, amended: a second run on the same input returns the same           *)
(* classified list and the same alerts, and the same vendor rows when both *)
(* runs take place on the same local day; no session of the first run is   *)
(* visible to the second.                                                  *)
C20_SecondRunEqualsFirstOnSameDay ==
    previous # <<>> =>
        /\ pc \in {"transformed", "alerted", "done"} => result = previous[1].result
        /\ pc \in {"alerted", "done"} => alerts = previous[1].alerts
        /\ (pc = "done" /\ today = previous[1].today)
              => analytics = previous[1].analytics

(* a second run that finished on another day than the first, with other    *)
(* vendor rows, after sessions were tracked and alerts raised              *)
C20_Witness ==
    /\ pc = "done"
    /\ previous # <<>>
    /\ today # previous[1].today
    /\ analytics # previous[1].analytics
    /\ alerts # <<>>
    /\ \E p \in DOMAIN vehicleEntries : vehicleEntries[p].entryCount > 0

----------------------------------------------------------------------------
(* Properties of the order of the input                                    *)

Permuted(list, f) == [i \in 1..Len(list) |-> list[f[i]]]

(* the direction given to each record id                                   *)
DirectionById(list) == {<<list[i].id, list[i].direction>> : i \in 1..Len(list)}

DistinctTimestamps(list) ==
    \A i, j \in 1..Len(list) : list[i].timestamp = list[j].timestamp => i = j

(* C22: session state is mutated in ascending-timestamp order whatever the *)
(* arrival order: the scan walks the events in non-decreasing timestamp    *)
(* order, no session was last seen after the event being processed, and    *)
(* for pairwise distinct timestamps every permutation of the input gives   *)
(* each record id the same direction.                                      *)
C22_ArrivalOrderDoesNotMatter ==
    /\ pc = "scan" =>
          \A i, j \in 1..Len(sortedEvents) :
              i < j => sortedEvents[i].timestamp <= sortedEvents[j].timestamp
    /\ Scanning =>
          \A p \in DOMAIN vehicleEntries :
              vehicleEntries[p].lastSeen <= getTime(Cur.timestamp)
    /\ (pc = "transformed" /\ DistinctTimestamps(events)) =>
          \A f \in Permutations(1..Len(events)) :
              DirectionById(transformToConstructionSiteEvents(Permuted(events, f)))
                  = DirectionById(result)

(* a finished run on events that arrived newest first, with an entry and   *)
(* an exit of one plate                                                    *)
C22_Witness ==
    /\ pc = "transformed"
    /\ DistinctTimestamps(events)
    /\ Len(events) >= 3
    /\ \A i, j \in 1..Len(events) : i < j => events[i].timestamp > events[j].timestamp
    /\ \E i, j \in 1..Len(result) :
          /\ result[i].plateNumber = result[j].plateNumber
          /\ IsAllowRecord(result[i]) /\ IsExitRecord(result[i])
          /\ IsAllowRecord(result[j]) /\ IsEntryRecord(result[j])

----------------------------------------------------------------------------
(* Properties of the vendor rows                                           *)

(* the day, counted from the reference day, a timestamp in minutes falls on *)
DayOf(minutes) == minutes \div (24 * 60)

(* the vendor of a plate: the state code is the upper-cased first two      *)
(* characters                                                              *)
VendorOfPlate(plate) ==
    IF Len(plate) < 2 THEN "Unknown Vendor"
    ELSE LET code == toUpperCase(SubSeq(plate, 1, 2)) IN
         IF code \in DOMAIN stateCodes THEN stateCodes[code] ELSE "Vendor " \o code

(* positions in the classified list of the ALLOW records of a vendor       *)
GroupIndices(vendorName) ==
    {j \in 1..Len(result) :
        IsAllowRecord(result[j]) /\ VendorOfPlate(result[j].plateNumber) = vendorName}

(* C24: deliveriesToday of a vendor is the number of ALLOW Entry records   *)
(* of its group dated on the current day; exits and entries of other days  *)
(* are not counted.                                                        *)
C24_DeliveriesTodayCountsEntriesOfToday ==
    pc = "done" =>
        \A i \in 1..Len(analytics) :
            analytics[i].deliveriesToday =
                Cardinality({j \in GroupIndices(analytics[i].vendorName) :
                                /\ IsEntryRecord(result[j])
                                /\ DayOf(result[j].timestamp) = DayOf(today \div MsPerMinute)})

(* a vendor with a delivery today, an exit today and an entry of another   *)
(* day                                                                     *)
C24_Witness ==
    /\ pc = "done"
    /\ \E i \in 1..Len(analytics) :
          /\ analytics[i].deliveriesToday = 1
          /\ \E j, k \in GroupIndices(analytics[i].vendorName) :
                /\ IsExitRecord(result[j])
                /\ DayOf(result[j].timestamp) = DayOf(today \div MsPerMinute)
                /\ IsEntryRecord(result[k])
                /\ DayOf(result[k].timestamp) # DayOf(today \div MsPerMinute)

(* the rows computed from the classified list in the order f               *)
RowsOfPermuted(f) == calculateVendorAnalytics(Permuted(result, f), today \div MsPerMinute)

(* C25: lastDeliveryTime of a vendor is the greatest timestamp of the      *)
(* ALLOW Entry records of its group, in whatever order the records are     *)
(* listed; it is undefined when the group has no Entry.                    *)
C25_LastDeliveryIsLatestEntry ==
    pc = "done" =>
        \A f \in Permutations(1..Len(result)) :
            \A i \in 1..Len(RowsOfPermuted(f)) :
                LET row == RowsOfPermuted(f)[i]
                    entryTimes == {result[j].timestamp : j \in
                                      {j \in GroupIndices(row.vendorName) :
                                          IsEntryRecord(result[j])}}
                IN IF entryTimes = {} THEN row.lastDeliveryTime = <<>>
                   ELSE /\ Len(row.lastDeliveryTime) = 1
                        /\ row.lastDeliveryTime[1] \in entryTimes
                        /\ \A t \in entryTimes : t <= row.lastDeliveryTime[1]

(* a vendor with entries at two different times                            *)
C25_Witness ==
    /\ pc = "done"
    /\ \E i \in 1..Len(analytics) :
          \E j, k \in GroupIndices(analytics[i].vendorName) :
              /\ IsEntryRecord(result[j]) /\ IsEntryRecord(result[k])
              /\ result[j].timestamp < result[k].timestamp
              /\ analytics[i].lastDeliveryTime = <<result[k].timestamp>>

(* C26: the vendor rows are sorted by deliveriesToday, greatest first, and *)
(* there is exactly one row per vendor name that has an ALLOW record.      *)
C26_OneRowPerVendorMostDeliveriesFirst ==
    pc = "done" =>
        /\ \A i \in 1..(Len(analytics) - 1) :
              analytics[i].deliveriesToday >= analytics[i + 1].deliveriesToday
        /\ \A i, j \in 1..Len(analytics) :
              analytics[i].vendorName = analytics[j].vendorName => i = j
        /\ {analytics[i].vendorName : i \in 1..Len(analytics)}
              = {VendorOfPlate(result[j].plateNumber) :
                    j \in {j \in 1..Len(result) : IsAllowRecord(result[j])}}

(* two vendors, the one met first in the classified list with fewer        *)
(* deliveries today, beside records that are not ALLOW                     *)
C26_Witness ==
    /\ pc = "done"
    /\ Len(analytics) = 2
    /\ analytics[1].deliveriesToday > analytics[2].deliveriesToday
    /\ analytics[2].vendorName = VendorKeys(AllowRecordsOnly(result))[1]

----------------------------------------------------------------------------
(* Properties of the labels                                                *)

HasMachineryWord(description) ==
    LET d == toLowerCase(description) IN
    Includes(d, "machinery") \/ Includes(d, "excavator") \/ Includes(d, "crane")

HasStaffWord(description) ==
    LET d == toLowerCase(description) IN
    Includes(d, "staff") \/ Includes(d, "employee") \/ Includes(d, "personnel")

HasTruckWord(description) ==
    LET d == toLowerCase(description) IN
    Includes(d, "truck") \/ Includes(d, "material") \/ Includes(d, "delivery")

(* C27: vehicleCategory follows the priority Machinery keywords, then      *)
(* Staff keywords, then Material Truck keywords, default Material Truck;   *)
(* a description with a Machinery and a Material Truck keyword is          *)
(* Machinery.                                                              *)
C27_MachineryThenStaffThenTruck ==
    \A i \in 1..Len(result) :
        result[i].vehicleCategory =
            IF HasMachineryWord(result[i].description) THEN "Machinery"
            ELSE IF HasStaffWord(result[i].description) THEN "Staff"
            ELSE "Material Truck"

(* C28: gateName is the rule name itself when it is present and contains   *)
(* 'gate' in any letter case, 'Gate ' + rule name for any other present    *)
(* rule name, 'Gate <token>' for a 'gate <token>' match in the description *)
(* when there is no rule name, and otherwise 'Main Gate'; the description  *)
(* is not consulted when the rule name is present.                         *)
C28_GateNameRules ==
    \A i \in 1..Len(result) :
        LET r == result[i] IN
        /\ r.ruleName # "" /\ Includes(toLowerCase(r.ruleName), "gate")
              => r.gateName = r.ruleName
        /\ r.ruleName # "" /\ ~Includes(toLowerCase(r.ruleName), "gate")
              => r.gateName = "Gate " \o r.ruleName
        /\ r.ruleName = "" /\ GateMatch(r.description) # ""
              => r.gateName = "Gate " \o GateMatch(r.description)
        /\ r.ruleName = "" /\ GateMatch(r.description) = ""
              => r.gateName = "Main Gate"

(* records of each of the four cases, the descriptions of the rule-named   *)
(* ones naming another gate                                                *)
C28_Witness ==
    /\ pc = "transformed"
    /\ \E i, j, k \in 1..Len(result) :
          /\ result[i].gateName = "North Gate" /\ GateMatch(result[i].description) = "2"
          /\ result[j].gateName = "Gate blacklist" /\ GateMatch(result[j].description) = "4"
          /\ result[k].gateName = "Gate 7b"

(* C29: vendorName is a function of the first two characters of the plate  *)
(* in any letter case: the table's name for a code of the table, 'Vendor   *)
(* <CODE>' for any other code, 'Unknown Vendor' for a shorter plate; plates *)
(* with the same prefix fall in one row.                                   *)
C29_VendorFromStateCode ==
    pc = "done" =>
        /\ \A j \in 1..Len(result) :
              IsAllowRecord(result[j]) =>
                  Cardinality({i \in 1..Len(analytics) :
                      analytics[i].vendorName = VendorOfPlate(result[j].plateNumber)}) = 1
        /\ \A i \in 1..Len(analytics) :
              \E j \in 1..Len(result) :
                  /\ IsAllowRecord(result[j])
                  /\ analytics[i].vendorName = VendorOfPlate(result[j].plateNumber)

(* one row holds plates written 'MH' and 'mh'; other rows are 'Vendor XK'  *)
(* or 'Unknown Vendor'                                                     *)
C29_Witness ==
    /\ pc = "done"
    /\ \E i, k \in 1..Len(analytics) :
          /\ analytics[i].vendorName = "Maharashtra"
          /\ \E j1, j2 \in GroupIndices("Maharashtra") :
                /\ SubSeq(result[j1].plateNumber, 1, 2) = "MH"
                /\ SubSeq(result[j2].plateNumber, 1, 2) = "mh"
          /\ analytics[k].vendorName \in {"Vendor XK", "Unknown Vendor"}

(* C30: the pipeline never mutates its input: the raw event list keeps its *)
(* order and fields through the whole run, and the classified list keeps   *)
(* its order and fields through identifyTheftAlerts and                    *)
(* calculateVendorAnalytics.                                               *)
C30_InputsAreNotMutated ==
    [][/\ events' = events
       /\ pc \in {"transformed", "alerted"} => result' = result]_vars

(* a finished run on events that did not arrive in timestamp order, with   *)
(* entries of one vendor listed newest first                               *)
C30_Witness ==
    /\ pc = "done"
    /\ events # SortByTimestampAsc(events)
    /\ alerts # <<>>
    /\ \E i \in 1..Len(analytics) :
          \E j, k \in GroupIndices(analytics[i].vendorName) :
              /\ j < k
              /\ IsEntryRecord(result[j]) /\ IsEntryRecord(result[k])
              /\ result[j].timestamp > result[k].timestamp

----------------------------------------------------------------------------
(* Properties of the component                                             *)

(* the three loads of ngOnInit have all been answered without an error     *)
AllLoaded ==
    /\ lifecycle # "constructed"
    /\ ~liveEventsLoading /\ liveEventsError = <<>>
    /\ ~alertsLoading /\ alertsError = <<>>
    /\ ~analyticsLoading /\ analyticsError = <<>>

(* no record has one direction in list a and another in list b             *)
SameDirections(a, b) ==
    \A p \in DirectionById(a) : \A q \in DirectionById(b) :
        p[1] = q[1] => p[2] = q[2]

(* C21: the classified list, the alert list and the vendor analytics come  *)
(* from one input snapshot and are mutually consistent: once the three     *)
(* loads are answered, the alerts shown are the alerts of the classified   *)
(* list shown, the analytics shown are the analytics of that list at some  *)
(* instant, and a record classified for more than one of the three has the *)
(* same direction in each                                                  *)
C21_OneSnapshotBehindAllThree ==
    AllLoaded =>
        /\ theftAlerts = identifyTheftAlerts(liveEvents)
        /\ \E now \in NowTimes :
              vendorAnalytics = calculateVendorAnalytics(liveEvents, now)
        /\ SameDirections(liveEvents, getConstructionSiteEvents(log, AlertsLimit))
        /\ SameDirections(liveEvents, getConstructionSiteEvents(log, AnalyticsLimit))
        /\ SameDirections(getConstructionSiteEvents(log, AlertsLimit),
                          getConstructionSiteEvents(log, AnalyticsLimit))

(* C23: while the component is alive every interval tick issues a new      *)
(* fetch of the alerts, whatever became of the fetches of earlier ticks    *)
C23_EveryTickIssuesAFetch ==
    [][(lifecycle = "alive" /\ ticks' = ticks + 1)
          => /\ issued' = issued + 1
             /\ Request(issued', "startAlertsAutoRefresh", AlertsLimit) \in inflight']_vars

----------------------------------------------------------------------------
(* Properties of the returned list and of the sessions                     *)

(* transformToConstructionSiteEvents has returned                          *)
Transformed == pc \in {"transformed", "alerted", "done"}

NewestFirst(list) ==
    \A i \in 1..(Len(list) - 1) :
        getTime(list[i].timestamp) >= getTime(list[i + 1].timestamp)

(* C31: the classified list returned is sorted by timestamp descending,    *)
(* newest first, for every order of the input: the list of the run is,     *)
(* and so is the list of every permutation of its input.                   *)
C31_ClassifiedListNewestFirst ==
    /\ Transformed => NewestFirst(result)
    /\ pc = "transformed" =>
          \A f \in Permutations(1..Len(events)) :
              NewestFirst(transformToConstructionSiteEvents(Permuted(events, f)))

(* a returned list of three records of different instants whose events     *)
(* arrived neither oldest first nor newest first                           *)
C31_Witness ==
    /\ pc = "transformed"
    /\ Len(result) >= 3
    /\ \E i \in 1..(Len(result) - 1) : result[i].timestamp > result[i + 1].timestamp
    /\ \E i, j \in 1..Len(events) : i < j /\ events[i].timestamp < events[j].timestamp
    /\ \E i, j \in 1..Len(events) : i < j /\ events[i].timestamp > events[j].timestamp

AlertTypes == {"Unauthorized Exit", "No Matching Entry", "After Hours Exit"}

(* positions of all the alerts raised for one record                       *)
AlertsOfRecord(id) == {i \in 1..Len(alerts) : alerts[i].id = id}

HourOf(minutes) == (minutes \div 60) % 24

(* C32: one classified record produces at most three alerts, at most one   *)
(* of each alert type; a record with a 'No Matching Entry' or an 'After    *)
(* Hours Exit' alert also has an 'Unauthorized Exit' alert; an ALERT Exit  *)
(* record with no matching entry and an hour outside 6..19 has all three.  *)
C32_AtMostThreeAlertsPerRecord ==
    AlertsReturned =>
        /\ \A i \in 1..Len(alerts) : alerts[i].alertType \in AlertTypes
        /\ \A j \in 1..Len(result) :
              LET id == result[j].id IN
              /\ Cardinality(AlertsOfRecord(id)) <= 3
              /\ \A t \in AlertTypes : Cardinality(AlertIndices(t, id)) <= 1
              /\ (AlertIndices("No Matching Entry", id) # {}
                      \/ AlertIndices("After Hours Exit", id) # {})
                    => AlertIndices("Unauthorized Exit", id) # {}
              /\ (/\ IsAlertExitRecord(result[j])
                  /\ ~EntryWithinDayBefore(result[j])
                  /\ HourOf(result[j].timestamp) \notin 6..19)
                    => \A t \in AlertTypes : AlertIndices(t, id) # {}

(* one record raised all three alerts, another only one and a third none   *)
C32_Witness ==
    /\ AlertsReturned
    /\ \E j, k, l \in 1..Len(result) :
          /\ Cardinality(AlertsOfRecord(result[j].id)) = 3
          /\ Cardinality(AlertsOfRecord(result[k].id)) = 1
          /\ AlertsOfRecord(result[l].id) = {}

(* the ALLOW records of plate p pushed so far, in the order of the pushes  *)
AllowPushed(p) ==
    LET OfPlate(r) == r.plateNumber = p /\ IsAllowRecord(r)
    IN SelectSeq(result, OfPlate)

(* C33: after every step of the scan, for every plate with session state,  *)
(* entryCount + exitCount is the number of ALLOW records of the plate      *)
(* processed so far, entryCount >= 1, firstSeen <= lastSeen, and lastSeen  *)
(* is the timestamp of the plate's most recently processed ALLOW record.   *)
C33_SessionStateMatchesProcessedRecords ==
    pc = "scan" =>
        \A p \in DOMAIN vehicleEntries :
            LET vs == vehicleEntries[p]
                pushed == AllowPushed(p)
            IN /\ vs.entryCount + vs.exitCount = Len(pushed)
               /\ vs.entryCount >= 1
               /\ vs.firstSeen <= vs.lastSeen
               /\ pushed # <<>>
               /\ vs.lastSeen = Last(pushed).timestamp * MsPerMinute

(* a scan in which a plate has come back for a second visit after an exit  *)
(* and an alert of the plate has been pushed                               *)
C33_Witness ==
    /\ pc = "scan"
    /\ \E p \in DOMAIN vehicleEntries :
          /\ vehicleEntries[p].entryCount = 2
          /\ vehicleEntries[p].exitCount = 1
          /\ vehicleEntries[p].firstSeen < vehicleEntries[p].lastSeen
          /\ \E i \in 1..Len(result) :
                result[i].plateNumber = p /\ ~IsAllowRecord(result[i])

(* the plate's state as the ALLOW branch reads it for the current event    *)
StateBefore ==
    VehicleState(vehicleEntries, PlateNumber(Cur), getTime(Cur.timestamp))

(* an ALLOW record of plate p with an exit keyword is among the records    *)
ExitWordPushed(p, records) ==
    \E i \in 1..Len(records) :
        /\ records[i].plateNumber = p
        /\ IsAllowRecord(records[i])
        /\ ExitWord(records[i].description)

AllowOfPlate(list, p) ==
    LET OfPlate(r) == r.plateNumber = p /\ IsAllowRecord(r)
    IN SelectSeq(list, OfPlate)

(* no record of the list has a directional keyword and neighbours are at   *)
(* most two hours apart, in minutes                                        *)
QuietAndClose(list) ==
    /\ \A i \in 1..Len(list) :
          ~ExitWord(list[i].description) /\ ~EntryWord(list[i].description)
    /\ \A i \in 1..(Len(list) - 1) :
          list[i + 1].timestamp - list[i].timestamp <= 2 * 60

(* C35: for a plate whose ALLOW records have no directional keyword and    *)
(* are each at most 2 hours after the one before, the directions are       *)
(* Entry, Exit, Entry, Exit, ... from the first on, whatever non-ALLOW     *)
(* records and records of other plates lie between them.                   *)
C35_QuietPlateAlternates ==
    pc = "scan" =>
        \A p \in DOMAIN vehicleEntries :
            LET pushed == AllowOfPlate(result, p) IN
            QuietAndClose(pushed) =>
                \A i \in 1..Len(pushed) :
                    pushed[i].direction = IF i % 2 = 1 THEN "Entry" ELSE "Exit"

(* three ALLOW records of a plate, the third exactly two hours after the   *)
(* second, with an alert of the plate between them                         *)
C35_Witness ==
    /\ pc = "scan"
    /\ \E p \in DOMAIN vehicleEntries :
          LET pushed == AllowOfPlate(result, p) IN
          /\ QuietAndClose(pushed)
          /\ Len(pushed) >= 3
          /\ \E i \in 1..(Len(pushed) - 1) :
                pushed[i + 1].timestamp - pushed[i].timestamp = 2 * 60
          /\ \E i \in 1..Len(result) :
                result[i].plateNumber = p /\ ~IsAllowRecord(result[i])

(* positions in result of the ALLOW Entry records of one vendor            *)
EntryIndices(vendorName) ==
    {j \in 1..Len(result) :
        /\ IsAllowRecord(result[j])
        /\ IsEntryRecord(result[j])
        /\ VendorOfPlate(result[j].plateNumber) = vendorName}

(* C36: when calculateVendorAnalytics is fed the output of                 *)
(* transformToConstructionSiteEvents every vendor row has at least one     *)
(* Entry record in its group and so a lastDeliveryTime: no vendor is made  *)
(* of Exit records only.                                                   *)
C36_EveryVendorRowHasAnEntry ==
    pc = "done" =>
        \A i \in 1..Len(analytics) :
            /\ EntryIndices(analytics[i].vendorName) # {}
            /\ analytics[i].lastDeliveryTime # <<>>
            /\ \E j \in EntryIndices(analytics[i].vendorName) :
                  analytics[i].lastDeliveryTime = <<result[j].timestamp>>

(* rows of two vendors, one of them for a single record with an exit       *)
(* keyword                                                                 *)
C36_Witness ==
    /\ pc = "done"
    /\ Len(analytics) >= 2
    /\ \E i \in 1..Len(analytics) :
          /\ Cardinality(EntryIndices(analytics[i].vendorName)) = 1
          /\ \A j \in 1..Len(result) :
                (IsAllowRecord(result[j])
                    /\ VendorOfPlate(result[j].plateNumber) = analytics[i].vendorName)
                  => ExitWord(result[j].description)

----------------------------------------------------------------------------
(* Properties of the alert requests                                        *)

(* the requests of the auto-refresh stream among rs                        *)
StreamRequests(rs) == {r \in rs : r.call = "startAlertsAutoRefresh"}

(* the step hands the response to request r to a next callback that sets   *)
(* theftAlerts                                                             *)
Delivers(r) == r \in inflight /\ r \notin inflight' /\ alertsFrom' = r.seq

(* C37: theftAlerts only moves forward in request order: once set from the *)
(* response to a fetch it is never set from the response to a fetch that   *)
(* was issued earlier.                                                     *)
C37_AlertsMoveForwardInRequestOrder ==
    [][alertsFrom' >= alertsFrom]_vars

(* C38: at most one fetch of the auto-refresh stream is in flight, and it  *)
(* is the last one issued; a tick that finds a fetch pending cancels it,   *)
(* a cancelled fetch is never delivered, and every delivery of the stream  *)
(* is of the last fetch issued, so deliveries come in tick order.          *)
C38_OneStreamFetchInFlight ==
    [][ /\ Cardinality(StreamRequests(inflight')) <= 1
        /\ \A r \in StreamRequests(inflight') : r.seq = issued'
        /\ ticks' = ticks + 1 =>
              \A r \in StreamRequests(inflight) :
                  r \notin inflight' /\ r.seq \in cancelled' /\ alertsFrom' = alertsFrom
        /\ alertsFrom' \notin cancelled'
        /\ \A r \in StreamRequests(inflight) :
              Delivers(r) => r.seq = issued /\ r.seq > alertsFrom
      ]_vars

(* a tick cancelled a pending fetch of the stream and the fetch of a later *)
(* tick was delivered while the component was alive                        *)
C38_Witness ==
    /\ lifecycle = "alive"
    /\ cancelled # {}
    /\ ticks = 2
    /\ alertsFrom = issued
    /\ \E c \in cancelled : c < alertsFrom

(* C39: after ngOnDestroy the auto-refresh subscription is cancelled: no   *)
(* fetch of the stream is pending or issued any more and no response of    *)
(* the stream sets theftAlerts, even if a fetch was in flight when the     *)
(* component was destroyed.                                                *)
C39_NoAutoRefreshAfterDestroy ==
    [][ /\ lifecycle' = "destroyed" =>
              /\ alertsRefreshSubscription' = "closed"
              /\ StreamRequests(inflight') = {}
        /\ lifecycle = "destroyed" =>
              /\ issued' = issued
              /\ \A r \in StreamRequests(inflight) : ~Delivers(r)
              /\ (theftAlerts' # theftAlerts \/ alertsFrom' # alertsFrom) =>
                    \E r \in inflight : r.call = "loadTheftAlerts" /\ Delivers(r)
      ]_vars

(* the component was destroyed with the first fetch of the stream in       *)
(* flight, time went on, and the one-shot load was answered afterwards     *)
C39_Witness ==
    /\ lifecycle = "destroyed"
    /\ issued = 4
    /\ 4 \in cancelled
    /\ ticks >= 1
    /\ alertsFrom = 2

====
